---------------------------- MODULE Spec2Model ----------------------------
(***************************************************************************)
(* Mimeo (src/.local/share/mimeo/Mimeo.py): association resolution, the    *)
(* text of mimeapps.list files and the commands built from Exec fields.    *)
(*                                                                         *)
(* Strings that the code takes apart (MIME-types, matchers) are sequences  *)
(* of one-character strings.  A filesystem path is the sequence of its     *)
(* components: os.path.join(d, n) is Append(d, n), os.path.dirname drops   *)
(* the last component and os.path.basename keeps it.                       *)
(***************************************************************************)
EXTENDS Integers, Sequences, FiniteSets, TLC

VARIABLES
  disk,            \* association files on disk: path -> parsed table
  files,           \* desktop files that exist (set of paths)
  opts,            \* the Mimeo object's options (Mimeo.__init__)
  associations,    \* Mimeo.associations: path -> table, the per-process cache
  seen_mimetypes,  \* Mimeo.seen_mimetypes
  phase,           \* "setup" before the process starts, "run" afterwards
  nsteps,          \* number of setup steps and modifications so far
  nmods,           \* number of modify_associations calls made
  nres,            \* number of resolutions made
  mod,             \* the arguments of the last modify_associations call and
                   \* the defaults as they were before it
  query,           \* the arguments of the last resolution
  out,             \* what mimetype_to_desktop_filepaths yielded
  current_desktops, \* the names in the environment's XDG_CURRENT_DESKTOP
  call             \* the last call of a module-level function: its
                   \* arguments and what it returned

vars == <<disk, files, opts, associations, seen_mimetypes, phase, nsteps,
          nmods, nres, mod, query, out, current_desktops, call>>

-----------------------------------------------------------------------------
(* Bounds of the model *)

\* writes to the configuration: by other programs before the process starts
\* and by modify_associations
MaxSteps == 2
MaxMods == 1
MaxResolves == 1
\* setup steps of the specification that looks at one directory only
MaxFormSteps == 3
\* changes of files on disk while the process runs
MaxChanges == 1
\* setup steps before the process whose cached tables are followed
MaxMemoSteps == 1
\* length of the value lists of the tables given to the table functions
MaxLen == 3
\* number of lines of a mimeapps.list file that is parsed
MaxLines == 3
\* words after the program in an Exec template, and arguments given to it
MaxWords == 2
MaxArgs == 2
\* rules of a custom association file
MaxRules == 2
\* setup steps before arguments are turned into commands
MaxLaunchSteps == 1
\* additions and removals applied to a loaded table
MaxTableOps == 2
\* modifications that one run of main() makes before a query
MaxKnownMods == 2

-----------------------------------------------------------------------------
(* Sequence helpers *)

Range(s) == {s[i] : i \in 1..Len(s)}

Last(s) == s[Len(s)]

Front(s) == SubSeq(s, 1, Len(s) - 1)

RECURSIVE Concat(_)
Concat(ss) == IF ss = <<>> THEN <<>> ELSE Head(ss) \o Concat(Tail(ss))

\* 0 when c does not occur
RECURSIVE IndexFrom(_, _, _)
IndexFrom(s, c, i) ==
  IF i > Len(s) THEN 0 ELSE IF s[i] = c THEN i ELSE IndexFrom(s, c, i + 1)

IndexOf(s, c) == IndexFrom(s, c, 1)

RECURSIVE LastIndexFrom(_, _, _)
LastIndexFrom(s, c, i) ==
  IF i < 1 THEN 0 ELSE IF s[i] = c THEN i ELSE LastIndexFrom(s, c, i - 1)

LastIndexOf(s, c) == LastIndexFrom(s, c, Len(s))

Positions(s, x) == {i \in 1..Len(s) : s[i] = x}

Count(s, x) == Cardinality(Positions(s, x))

StartsWith(s, p) == Len(s) >= Len(p) /\ SubSeq(s, 1, Len(p)) = p

-----------------------------------------------------------------------------
(* Program constants *)

MIMEAPPS_LIST_FILE == "mimeapps.list"
MIMEINFO_CACHE_FILE == "mimeinfo.cache"
APP_DIR == "applications"
ADDED_ASSOCIATIONS_SECTION == "Added Associations"
REMOVED_ASSOCIATIONS_SECTION == "Removed Associations"
DEFAULT_APPLICATIONS_SECTION == "Default Applications"
MIME_CACHE_SECTION == "MIME Cache"

ASSOCIATION_ADDERS ==
  [add |-> <<ADDED_ASSOCIATIONS_SECTION>>,
   remove |-> <<REMOVED_ASSOCIATIONS_SECTION>>,
   prefer |-> <<DEFAULT_APPLICATIONS_SECTION>>]

ASSOCIATION_REMOVERS ==
  [unadd |-> <<ADDED_ASSOCIATIONS_SECTION>>,
   unremove |-> <<REMOVED_ASSOCIATIONS_SECTION>>,
   unprefer |-> <<DEFAULT_APPLICATIONS_SECTION>>,
   clear |-> <<ADDED_ASSOCIATIONS_SECTION, REMOVED_ASSOCIATIONS_SECTION,
               DEFAULT_APPLICATIONS_SECTION>>]

MATCHER_PREFIX_GLOB == <<"g", "l", "o", "b", ":">>
MATCHER_PREFIX_REGEX == <<"r", "e", "g", "e", "x", ":">>

\* the "no result" marker that at_least_one asks for
None == <<>>

-----------------------------------------------------------------------------
(* The environment of the process *)

\* xdg.BaseDirectory.xdg_config_home, xdg_config_dirs, xdg_data_home, xdg_data_dirs
xdg_config_home == <<"cfg">>
xdg_config_dirs == <<xdg_config_home, <<"etc">> >>
xdg_data_home == <<"data">>
xdg_data_dirs == <<xdg_data_home, <<"usr">> >>

\* os.getenv(XDG_CURRENT_DESKTOP).split(':'), lower-cased
CurrentDesktops == current_desktops

\* the desktop identifiers in use
Desktops == {"viewer.desktop", "editor.desktop"}

\* MIME-types: "t/p" (no tree, suffix or parameters), "t/v.p" (tree v) and
\* "t/p+x" (suffix x)
TextPlain == <<"t", "/", "p">>
TreeForm == <<"t", "/", "v", ".", "p">>
SuffixForm == <<"t", "/", "p", "+", "x">>

QueryMimes == {TextPlain, TreeForm}

\* the MIME-types registered in mimetypes.knownfiles
KnownfilesMimes == {TextPlain, TreeForm}

\* the MimeType field of the desktop file at a path (getMimeTypes)
EntryMimeTypes(path) ==
  IF Last(path) = "viewer.desktop" THEN {TextPlain} ELSE {TextPlain, TreeForm}

-----------------------------------------------------------------------------
(* MIME-types *)

\* str.split(sep, 1): <<before, after>> at the first sep, <<s>> without one
SplitFirst(s, sep) ==
  LET i == IndexOf(s, sep)
  IN  IF i = 0 THEN <<s>> ELSE <<SubSeq(s, 1, i - 1), SubSeq(s, i + 1, Len(s))>>

\* str.rsplit(sep, 1): <<before, after>> at the last sep, <<s>> without one
SplitLast(s, sep) ==
  LET i == LastIndexOf(s, sep)
  IN  IF i = 0 THEN <<s>> ELSE <<SubSeq(s, 1, i - 1), SubSeq(s, i + 1, Len(s))>>

\* the components of a MIME-type string; tree, suffix and parameters are
\* None when absent.  Every MIME-type of the model holds a "/".
parse_mimetype(mimetype) ==
  LET top == SplitFirst(mimetype, "/")
      type_name == top[1]
      rest0 == top[2]
      t == SplitFirst(rest0, ".")
      tree == IF Len(t) = 2 THEN t[1] ELSE None
      rest1 == IF Len(t) = 2 THEN t[2] ELSE rest0
      p == SplitLast(rest1, ";")
      parameters == IF Len(p) = 2 THEN p[2] ELSE None
      rest2 == IF Len(p) = 2 THEN p[1] ELSE rest1
      u == SplitFirst(rest2, "+")
      subtype_name == u[1]
      suffix == IF Len(u) = 2 THEN u[2] ELSE None
  IN  [type_name |-> type_name, tree |-> tree, subtype_name |-> subtype_name,
       suffix |-> suffix, parameters |-> parameters]

strip_mimetype(mimetype) ==
  LET c == parse_mimetype(mimetype)
  IN  c.type_name \o <<"/">> \o c.subtype_name

-----------------------------------------------------------------------------
(* Path functions *)

join(d, name) == Append(d, name)

dirname(path) == Front(path)

basename(path) == Last(path)

\* the name "<desktop>-mimeapps.list" of a desktop-specific list file
DesktopListName(d) ==
  CASE d = "x" -> "x-mimeapps.list"
    [] d = "y" -> "y-mimeapps.list"

desktop_mimeapps_filenames ==
  [i \in 1..Len(CurrentDesktops) |-> DesktopListName(CurrentDesktops[i])]

\* the elements of a sequence of directories other than d
Except(ds, d) == SelectSeq(ds, LAMBDA x : x # d)

AppDirs(ds) == [i \in 1..Len(ds) |-> join(ds[i], APP_DIR)]

\* groups of directories, each group in order of precedence
mimeapps_directories(user, system, include_user_app_dir) ==
    (IF user THEN << <<xdg_config_home>> >> ELSE <<>>)
 \o (IF system THEN << Except(xdg_config_dirs, xdg_config_home) >> ELSE <<>>)
 \o (IF user /\ include_user_app_dir
       THEN << <<join(xdg_data_home, APP_DIR)>> >> ELSE <<>>)
 \o (IF system THEN << AppDirs(Except(xdg_data_dirs, xdg_data_home)) >> ELSE <<>>)

desktop_directories(user, system) ==
    (IF user THEN <<join(xdg_data_home, APP_DIR)>> ELSE <<>>)
 \o (IF system THEN AppDirs(Except(xdg_data_dirs, xdg_data_home)) ELSE <<>>)

\* the generic files of a group ahead of its desktop-specific files
GroupListPaths_generic_first(ds, current_desktop) ==
  LET dmals == desktop_mimeapps_filenames
      specific ==
        IF current_desktop
          THEN Concat([k \in 1..Len(dmals) |->
                         [i \in 1..Len(ds) |-> join(ds[i], dmals[k])]])
          ELSE <<>>
  IN  [i \in 1..Len(ds) |-> join(ds[i], MIMEAPPS_LIST_FILE)] \o specific

\* the list files of one group: per desktop name the desktop-specific file of
\* every directory, then the generic file of every directory
GroupListPaths(ds, current_desktop) ==
  LET dmals == desktop_mimeapps_filenames
      specific ==
        IF current_desktop
          THEN Concat([k \in 1..Len(dmals) |->
                         [i \in 1..Len(ds) |-> join(ds[i], dmals[k])]])
          ELSE <<>>
  IN  specific \o [i \in 1..Len(ds) |-> join(ds[i], MIMEAPPS_LIST_FILE)]

mimeapps_list_paths(current_desktop, user, system, include_user_app_dir) ==
  LET groups == mimeapps_directories(user, system, include_user_app_dir)
  IN  Concat([g \in 1..Len(groups) |-> GroupListPaths(groups[g], current_desktop)])

user_mimeapps_path(current_desktop) ==
  LET dmals == desktop_mimeapps_filenames
      name == IF current_desktop /\ dmals # <<>> THEN dmals[1]
                                                 ELSE MIMEAPPS_LIST_FILE
  IN  join(xdg_config_home, name)

mimeinfo_caches(user, system) ==
  LET ds == desktop_directories(user, system)
  IN  [i \in 1..Len(ds) |-> join(ds[i], MIMEINFO_CACHE_FILE)]

-----------------------------------------------------------------------------
(* Association tables: section -> key -> list of desktop identifiers.  A    *)
(* section or key that is absent is outside the function's domain.          *)

EmptyTable == [s \in {} |-> <<>>]

Put(f, k, v) == [x \in DOMAIN f \cup {k} |-> IF x = k THEN v ELSE f[x]]

Del(f, k) == [x \in DOMAIN f \ {k} |-> f[x]]

HasKey(assocs, section, key) ==
  section \in DOMAIN assocs /\ key \in DOMAIN assocs[section]

iterate_associations(assocs, section, key) ==
  IF HasKey(assocs, section, key) THEN assocs[section][key] ELSE <<>>

\* the value put at the end of the list instead of its front
add_association_at_end(assocs, section, key, value) ==
  IF section # "" /\ key # <<>> /\ value # ""
    THEN IF HasKey(assocs, section, key)
           THEN Put(assocs, section,
                    Put(assocs[section], key,
                        SelectSeq(assocs[section][key], LAMBDA x : x # value)
                          \o <<value>>))
           ELSE IF section \in DOMAIN assocs
                  THEN Put(assocs, section, Put(assocs[section], key, <<value>>))
                  ELSE Put(assocs, section, Put(EmptyTable, key, <<value>>))
    ELSE assocs

\* the value put in front of the list as it is
add_association_unfiltered(assocs, section, key, value) ==
  IF section # "" /\ key # <<>> /\ value # ""
    THEN IF HasKey(assocs, section, key)
           THEN Put(assocs, section,
                    Put(assocs[section], key,
                        <<value>> \o assocs[section][key]))
           ELSE IF section \in DOMAIN assocs
                  THEN Put(assocs, section, Put(assocs[section], key, <<value>>))
                  ELSE Put(assocs, section, Put(EmptyTable, key, <<value>>))
    ELSE assocs

add_association(assocs, section, key, value) ==
  IF section # "" /\ key # <<>> /\ value # ""
    THEN IF HasKey(assocs, section, key)
           THEN Put(assocs, section,
                    Put(assocs[section], key,
                        <<value>> \o SelectSeq(assocs[section][key],
                                               LAMBDA x : x # value)))
           ELSE IF section \in DOMAIN assocs
                  THEN Put(assocs, section, Put(assocs[section], key, <<value>>))
                  ELSE Put(assocs, section, Put(EmptyTable, key, <<value>>))
    ELSE assocs

\* list.remove(value): the first occurrence goes
RemoveFirst(s, value) ==
  LET i == IndexOf(s, value)
  IN  SubSeq(s, 1, i - 1) \o SubSeq(s, i + 1, Len(s))

\* a key whose list became empty is kept
remove_association_keeps_key(assocs, section, key, value) ==
  IF DOMAIN assocs # {} /\ section # "" /\ key # <<>>
       /\ HasKey(assocs, section, key)
    THEN IF value = ""
           THEN Put(assocs, section, Del(assocs[section], key))
           ELSE IF IndexOf(assocs[section][key], value) = 0
                  THEN assocs
                  ELSE Put(assocs, section,
                           Put(assocs[section], key,
                               RemoveFirst(assocs[section][key], value)))
    ELSE assocs

\* value = "" stands for the omitted value
remove_association(assocs, section, key, value) ==
  IF DOMAIN assocs # {} /\ section # "" /\ key # <<>>
       /\ HasKey(assocs, section, key)
    THEN IF value = ""
           THEN Put(assocs, section, Del(assocs[section], key))
           ELSE IF IndexOf(assocs[section][key], value) = 0
                  THEN assocs
                  ELSE LET rest == RemoveFirst(assocs[section][key], value)
                       IN  IF rest = <<>>
                             THEN Put(assocs, section, Del(assocs[section], key))
                             ELSE Put(assocs, section,
                                      Put(assocs[section], key, rest))
    ELSE assocs

remove_empty_associations(assocs) ==
  LET pruned(entries) ==
        [k \in {k \in DOMAIN entries : entries[k] # <<>>} |-> entries[k]]
  IN  [s \in {s \in DOMAIN assocs : DOMAIN pruned(assocs[s]) # {}} |->
         pruned(assocs[s])]

\* the files on disk after save_associations(path, assocs)
save_associations(path, assocs) ==
  LET kept == remove_empty_associations(assocs)
  IN  IF DOMAIN kept # {} THEN Put(disk, path, kept) ELSE Del(disk, path)

load_associations(path) ==
  IF path \in DOMAIN disk THEN disk[path] ELSE EmptyTable

\* every read goes to the disk
get_associations_unmemoized(path) == load_associations(path)

\* the table that Mimeo.get_associations(path) returns
get_associations(path) ==
  IF path \in DOMAIN associations THEN associations[path]
                                  ELSE load_associations(path)

\* Mimeo.associations after get_associations has been called for the paths
Loaded(paths) ==
  [p \in DOMAIN associations \cup paths |-> get_associations(p)]

-----------------------------------------------------------------------------
(* The resolver *)

\* os.path.exists of a desktop file path
path_exists(path) == path \in files

\* Mimeo.mimeapps_directories: the directory groups chained
Mimeo_mimeapps_directories ==
  Concat(mimeapps_directories(opts.user, opts.system, TRUE))

\* Mimeo.mimeapps_list_paths: the list-file sources in order of precedence
Mimeo_mimeapps_list_paths ==
  mimeapps_list_paths(TRUE, TRUE, TRUE, opts.include_deprecated)

\* the decorator: the first occurrence of every item, in order
RECURSIVE UniqueFrom(_, _)
UniqueFrom(s, seen) ==
  IF s = <<>> THEN <<>>
  ELSE IF Head(s) \in seen THEN UniqueFrom(Tail(s), seen)
       ELSE <<Head(s)>> \o UniqueFrom(Tail(s), seen \cup {Head(s)})

\* the generator without its decorator: every item goes through
unique_items_undecorated(s) == s

unique_items(s) == UniqueFrom(s, {})

\* a blacklist that starts afresh with every source
MergeRemoved_per_source(blacklist, assocs, mimetype) ==
  Range(iterate_associations(assocs, REMOVED_ASSOCIATIONS_SECTION, mimetype))

\* blacklist.update(Removed Associations[mimetype])
MergeRemoved(blacklist, assocs, mimetype) ==
  blacklist \cup
    Range(iterate_associations(assocs, REMOVED_ASSOCIATIONS_SECTION, mimetype))

\* list.extend over a generator that reads the list being extended
RECURSIVE ExtendUnique(_, _, _)
ExtendUnique(added, items, blacklist) ==
  IF items = <<>> THEN added
  ELSE IF Head(items) \notin blacklist /\ Head(items) \notin Range(added)
         THEN ExtendUnique(Append(added, Head(items)), Tail(items), blacklist)
         ELSE ExtendUnique(added, Tail(items), blacklist)

\* added, kept as it is, with the source's Added Associations appended
MergeAdded_unfiltered(added, blacklist, assocs, mimetype) ==
  ExtendUnique(added,
               iterate_associations(assocs, ADDED_ASSOCIATIONS_SECTION, mimetype),
               blacklist)

\* added, with the blacklisted entries dropped and the source's Added
\* Associations appended
MergeAdded(added, blacklist, assocs, mimetype) ==
  ExtendUnique(SelectSeq(added, LAMBDA a : a \notin blacklist),
               iterate_associations(assocs, ADDED_ASSOCIATIONS_SECTION, mimetype),
               blacklist)

\* the MIME Cache entries of the source's directory, followed by added
LocalAssociations_cache_first(added, blacklist, cache_assocs, mimetype) ==
  SelectSeq(iterate_associations(cache_assocs, MIME_CACHE_SECTION, mimetype),
            LAMBDA x : x \notin blacklist /\ x \notin Range(added))
    \o added

\* added, followed by the MIME Cache entries of the source's directory
LocalAssociations(added, blacklist, cache_assocs, mimetype) ==
  added \o
    SelectSeq(iterate_associations(cache_assocs, MIME_CACHE_SECTION, mimetype),
              LAMBDA x : x \notin blacklist /\ x \notin Range(added))

\* what one source yields: the existing desktop files of its directory
SourceYields(dpath, local_associations) ==
  SelectSeq([k \in 1..Len(local_associations) |->
               join(dpath, local_associations[k])],
            path_exists)

\* the paths yielded from source i of paths on, each with the index of its
\* source
RECURSIVE AssociatedFrom(_, _, _, _, _)
AssociatedFrom(paths, i, added0, blacklist0, mimetype) ==
  IF i > Len(paths) THEN <<>>
  ELSE
    LET path == paths[i]
        assocs == get_associations(path)
        blacklist == MergeRemoved(blacklist0, assocs, mimetype)
        added == MergeAdded(added0, blacklist, assocs, mimetype)
        dpath == dirname(path)
        mimeinfo_cache_assocs ==
          get_associations(join(dpath, MIMEINFO_CACHE_FILE))
        local_associations ==
          LocalAssociations(added, blacklist, mimeinfo_cache_assocs, mimetype)
        yielded == SourceYields(dpath, local_associations)
    IN  [k \in 1..Len(yielded) |-> [path |-> yielded[k], src |-> i]]
          \o AssociatedFrom(paths, i + 1, added, blacklist, mimetype)

associated_desktop_paths(mimetype) ==
  AssociatedFrom(Mimeo_mimeapps_list_paths, 1, <<>>, {}, mimetype)

\* the defaults with the removed identifiers of every source left out
default_desktop_filenames_blacklisted(mimetype) ==
  LET paths == Mimeo_mimeapps_list_paths
      blacklist ==
        UNION {Range(iterate_associations(get_associations(paths[i]),
                                          REMOVED_ASSOCIATIONS_SECTION,
                                          mimetype)) : i \in 1..Len(paths)}
  IN  SelectSeq(Concat([i \in 1..Len(paths) |->
                          iterate_associations(get_associations(paths[i]),
                                               DEFAULT_APPLICATIONS_SECTION,
                                               mimetype)]),
                LAMBDA d : d \notin blacklist)

default_desktop_filenames(mimetype) ==
  LET paths == Mimeo_mimeapps_list_paths
  IN  Concat([i \in 1..Len(paths) |->
                iterate_associations(get_associations(paths[i]),
                                     DEFAULT_APPLICATIONS_SECTION, mimetype)])

\* the stripped form tried first, and always
Forms_stripped_first(mimetype) == <<strip_mimetype(mimetype), mimetype>>

\* the MIME-type forms tried: the full form, then the stripped one if it differs
Forms(mimetype) ==
  IF strip_mimetype(mimetype) # mimetype
    THEN <<mimetype, strip_mimetype(mimetype)>>
    ELSE <<mimetype>>

\* the check left out: every candidate path is yielded
Passes_unchecked(fpath, only_existing) == TRUE

\* the check made before a path is yielded
Passes(fpath, only_existing) == ~only_existing \/ path_exists(fpath)

\* the paths yielded for the defaults of one form: every default in every
\* directory
DefaultYields(mimetype, only_existing) ==
  LET defaults == default_desktop_filenames(mimetype)
      dirs == Mimeo_mimeapps_directories
      fpaths == Concat([k \in 1..Len(defaults) |->
                          [j \in 1..Len(dirs) |-> join(dirs[j], defaults[k])]])
  IN  SelectSeq(fpaths, LAMBDA f : Passes(f, only_existing))

\* the loop body with its two parts swapped: associations, then defaults
FormYields_associated_first(mimetype, k, only_existing) ==
  LET ds == DefaultYields(mimetype, only_existing)
      as == SelectSeq(associated_desktop_paths(mimetype),
                      LAMBDA r : Passes(r.path, only_existing))
  IN  [i \in 1..Len(as) |->
         [path |-> as[i].path, form |-> k, origin |-> "associated",
          src |-> as[i].src]]
      \o [i \in 1..Len(ds) |->
            [path |-> ds[i], form |-> k, origin |-> "default", src |-> 0]]

\* everything the loop body yields for the k-th form, with provenance
FormYields(mimetype, k, only_existing) ==
  LET ds == DefaultYields(mimetype, only_existing)
      as == SelectSeq(associated_desktop_paths(mimetype),
                      LAMBDA r : Passes(r.path, only_existing))
  IN  [i \in 1..Len(ds) |->
         [path |-> ds[i], form |-> k, origin |-> "default", src |-> 0]]
      \o [i \in 1..Len(as) |->
            [path |-> as[i].path, form |-> k, origin |-> "associated",
             src |-> as[i].src]]

\* what the undecorated generator yields (first_only returns after one)
Generated(mimetype, first_only, only_existing) ==
  LET mimetypes == Forms(mimetype)
      all == Concat([k \in 1..Len(mimetypes) |->
                       FormYields(mimetypes[k], k, only_existing)])
  IN  IF first_only /\ all # <<>> THEN <<all[1]>> ELSE all

\* the decorated generator's output, given what the undecorated one yields
Decorated(g, at_least_one) ==
  unique_items([i \in 1..Len(g) |-> g[i].path]
               \o (IF g = <<>> /\ at_least_one THEN <<None>> ELSE <<>>))

mimetype_to_desktop_filepaths(mimetype, at_least_one, first_only, only_existing) ==
  Decorated(Generated(mimetype, first_only, only_existing), at_least_one)

\* the mimeinfo.cache files read while the generator ran
CachesRead(g, first_only) ==
  LET paths == Mimeo_mimeapps_list_paths
      upto == IF first_only /\ g # <<>> /\ g[1].form = 1
                THEN g[1].src ELSE Len(paths)
  IN  {join(dirname(paths[i]), MIMEINFO_CACHE_FILE) : i \in 1..upto}

-----------------------------------------------------------------------------
(* Matchers and the known MIME-types *)

\* fnmatch: "*" is any run of characters, "?" any one character, every other
\* character of the model's patterns stands for itself; the whole string
\* must match
RECURSIVE GlobMatch(_, _)
GlobMatch(pat, str) ==
  IF pat = <<>> THEN str = <<>>
  ELSE IF Head(pat) = "*"
         THEN \E k \in 0..Len(str) :
                GlobMatch(Tail(pat), SubSeq(str, k + 1, Len(str)))
         ELSE /\ str # <<>>
              /\ Head(pat) = "?" \/ Head(pat) = Head(str)
              /\ GlobMatch(Tail(pat), Tail(str))

\* every character stands for itself
re_escape_nothing(s) == s

\* re.escape: a backslash before every character that is special in a
\* regular expression
re_escape(s) ==
  Concat([i \in 1..Len(s) |->
            IF s[i] \in {".", "+", "*", "?", "^", "$", "\\", "(", ")", "[", "]",
                         "{", "}", "|"}
              THEN <<"\\", s[i]>> ELSE <<s[i]>>])

\* regex.match(str) for the regular expression p: "^" is the start, "$" the
\* end, "." any one character, a backslash makes the next character stand
\* for itself and so does every other character.  The expressions of the
\* model hold no quantifier and the strings no line break.
RECURSIVE regex_match(_, _, _)
regex_match(p, str, at_start) ==
  IF p = <<>> THEN TRUE
  ELSE IF Head(p) = "^" THEN at_start /\ regex_match(Tail(p), str, at_start)
  ELSE IF Head(p) = "$" THEN str = <<>> /\ regex_match(Tail(p), str, FALSE)
  ELSE IF Head(p) = "\\" /\ Len(p) > 1
    THEN /\ str # <<>>
         /\ Head(str) = p[2]
         /\ regex_match(SubSeq(p, 3, Len(p)), Tail(str), FALSE)
  ELSE /\ str # <<>>
       /\ Head(p) = "." \/ Head(p) = Head(str)
       /\ regex_match(Tail(p), Tail(str), FALSE)

\* whether the matcher is a pattern
IsPattern(matcher) ==
  StartsWith(matcher, MATCHER_PREFIX_GLOB) \/ StartsWith(matcher, MATCHER_PREFIX_REGEX)

\* whether the compiled regular expression accepts the MIME-type
mimetype_regex(matcher, m) ==
  IF StartsWith(matcher, MATCHER_PREFIX_GLOB)
    THEN GlobMatch(SubSeq(matcher, Len(MATCHER_PREFIX_GLOB) + 1, Len(matcher)), m)
  ELSE IF StartsWith(matcher, MATCHER_PREFIX_REGEX)
    THEN regex_match(SubSeq(matcher, Len(MATCHER_PREFIX_REGEX) + 1, Len(matcher)),
                     m, TRUE)
  ELSE regex_match(<<"^">> \o re_escape(matcher) \o <<"$">>, m, TRUE)

\* the keys of the given sections in the tables at the given paths
section_entries(paths, sections) ==
  UNION {UNION {DOMAIN get_associations(p)[sec] :
                  sec \in sections \cap DOMAIN get_associations(p)} :
           p \in paths}

\* the files that known_mimetypes reads when it computes the set
KnownMimetypesPaths ==
  Range(Mimeo_mimeapps_list_paths) \cup Range(mimeinfo_caches(TRUE, TRUE))

\* the set that known_mimetypes returns (and stores in seen_mimetypes)
known_mimetypes ==
  IF seen_mimetypes # {} THEN seen_mimetypes
  ELSE section_entries(Range(Mimeo_mimeapps_list_paths),
                       {ADDED_ASSOCIATIONS_SECTION, DEFAULT_APPLICATIONS_SECTION})
       \cup section_entries(Range(mimeinfo_caches(TRUE, TRUE)),
                            {MIME_CACHE_SECTION})
       \cup KnownfilesMimes

\* the MIME-types that matching_mimetypes(matcher, ensure_known) yields
matching_mimetypes(matcher, ensure_known) ==
  IF IsPattern(matcher) \/ ensure_known
    THEN {m \in known_mimetypes : mimetype_regex(matcher, m)}
    ELSE {matcher}

\* search_desktop_paths(ds, first_only = True): per desktop the file in the
\* first directory that holds it
search_desktop_paths_first(ds) ==
  LET dirs == desktop_directories(opts.user, opts.system)
      hits(d) == {i \in 1..Len(dirs) : path_exists(join(dirs[i], d))}
      first(d) == CHOOSE i \in hits(d) : \A j \in hits(d) : i <= j
  IN  {join(dirs[first(d)], d) : d \in {x \in ds : hits(x) # {}}}

-----------------------------------------------------------------------------
(* modify_associations *)

RECURSIVE SetToSeq(_)
SetToSeq(S) ==
  IF S = {} THEN <<>>
  ELSE LET x == CHOOSE y \in S : TRUE IN <<x>> \o SetToSeq(S \ {x})

\* the orders in which the elements of a sequence can come out of a set
Orders(s) ==
  {t \in [1..Cardinality(Range(s)) -> Range(s)] : Range(t) = Range(s)}

Ops == DOMAIN ASSOCIATION_ADDERS \cup DOMAIN ASSOCIATION_REMOVERS

\* itertools.product(sections, mimetypes, desktops): the last one runs
\* fastest
Product(sections, mimetypes, desktops) ==
  LET ms == SetToSeq(mimetypes)
      nd == Len(desktops)
      nm == Len(ms)
  IN  [i \in 1..(Len(sections) * nm * nd) |->
         <<sections[((i - 1) \div (nm * nd)) + 1],
           ms[(((i - 1) \div nd) % nm) + 1],
           desktops[((i - 1) % nd) + 1]>>]

\* the loop of an adder over the product
RECURSIVE AddEach(_, _)
AddEach(assocs, triples) ==
  IF triples = <<>> THEN assocs
  ELSE AddEach(add_association(assocs, Head(triples)[1], Head(triples)[2],
                               Head(triples)[3]),
               Tail(triples))

\* the loop of a remover over the product
RECURSIVE RemoveEach(_, _)
RemoveEach(assocs, triples) ==
  IF triples = <<>> THEN assocs
  ELSE RemoveEach(remove_association(assocs, Head(triples)[1],
                                     Head(triples)[2], Head(triples)[3]),
                  Tail(triples))

ApplyAdder(assocs, sections, mimetypes, desktops) ==
  AddEach(assocs, Product(sections, mimetypes, desktops))

\* the loops of a remover: per desktop, or the whole key without desktops
\* ("" stands for the omitted value)
ApplyRemover(assocs, sections, mimetypes, desktops) ==
  RemoveEach(assocs,
             Product(sections, mimetypes,
                     IF desktops # <<>> THEN desktops ELSE <<"">>))

\* the table after the loops of modify_associations
Modified(assocs, op, mimetypes, desktops) ==
  IF op \in DOMAIN ASSOCIATION_ADDERS
    THEN IF desktops # <<>>
           THEN ApplyAdder(assocs, ASSOCIATION_ADDERS[op], mimetypes, desktops)
           ELSE assocs
    ELSE ApplyRemover(assocs, ASSOCIATION_REMOVERS[op], mimetypes, desktops)

\* whether the loops run, and with them the lazy matching_mimetypes
LoopsRun(op, desktops) ==
  op \in DOMAIN ASSOCIATION_REMOVERS \/ desktops # <<>>

\* the path of the table that modify_associations changes
ModifiedPath == user_mimeapps_path(opts.current_desktop)

-----------------------------------------------------------------------------
(* The state machine *)

UserListFile == join(xdg_config_home, MIMEAPPS_LIST_FILE)
UserDesktopListFile == join(xdg_config_home, DesktopListName("x"))
SystemAppDir == join(<<"usr">>, APP_DIR)
UserAppDir == join(xdg_data_home, APP_DIR)
SystemListFile == join(SystemAppDir, MIMEAPPS_LIST_FILE)
SystemDesktopListFile == join(SystemAppDir, DesktopListName("x"))
SystemCacheFile == join(SystemAppDir, MIMEINFO_CACHE_FILE)
UserCacheFile == join(UserAppDir, MIMEINFO_CACHE_FILE)

ListSections ==
  {ADDED_ASSOCIATIONS_SECTION, REMOVED_ASSOCIATIONS_SECTION,
   DEFAULT_APPLICATIONS_SECTION}

\* the lines "key=d1;d2;" that setup steps write: the lists of one or two
\* distinct desktops
EntryValues ==
  {<<d>> : d \in Desktops}
    \cup {p \in Desktops \X Desktops : p[1] # p[2]}

\* the entries that the setup steps of Spec may write
SetupSlots ==
  {<<path, section, TextPlain>> :
     path \in {UserDesktopListFile, UserListFile, SystemDesktopListFile,
               SystemListFile},
     section \in ListSections}
    \cup {<<SystemCacheFile, MIME_CACHE_SECTION, TextPlain>>}

\* the entries that the setup steps of SpecForms may write
FormSlots ==
  {<<SystemListFile, section, key>> :
     section \in {ADDED_ASSOCIATIONS_SECTION, DEFAULT_APPLICATIONS_SECTION},
     key \in {TextPlain, TreeForm}}
    \cup {<<SystemCacheFile, MIME_CACHE_SECTION, key>> :
            key \in {TextPlain, TreeForm}}

\* the entries that the setup steps of SpecCache may write: cache entries
\* of the user's and of the system's applications directory
CacheSlots ==
  {<<path, MIME_CACHE_SECTION, key>> :
     path \in {UserCacheFile, SystemCacheFile}, key \in {TextPlain, TreeForm}}

FormQueryMimes == {TextPlain, TreeForm, SuffixForm}

\* the matchers and desktop lists given to modify_associations
GlobAll == MATCHER_PREFIX_GLOB \o <<"t", "/", "*">>
Matchers == {None, TextPlain, GlobAll}
DesktopArgs == {<<>>, <<"viewer.desktop">>, <<"viewer.desktop", "editor.desktop">>}

DefaultOpts ==
  [user |-> TRUE, system |-> TRUE, include_deprecated |-> FALSE,
   current_desktop |-> FALSE]

Init ==
  /\ disk = [p \in {} |-> EmptyTable]
  /\ files = {join(d, x) : d \in {UserAppDir, SystemAppDir}, x \in Desktops}
  /\ opts = DefaultOpts
  /\ associations = [p \in {} |-> EmptyTable]
  /\ seen_mimetypes = {}
  /\ phase = "setup"
  /\ nsteps = 0
  /\ nmods = 0
  /\ nres = 0
  /\ mod = [op |-> "none"]
  /\ query = [op |-> "none"]
  /\ out = <<>>
  /\ current_desktops = <<"x">>
  /\ call = [fn |-> "none"]

\* another program writes the line "key=values" to a section of an
\* association file
WriteEntry(max, slot, values) ==
  LET path == slot[1]
      section == slot[2]
      key == slot[3]
      assocs == load_associations(path)
      entries == IF section \in DOMAIN assocs THEN assocs[section]
                                              ELSE EmptyTable
  IN  /\ phase = "setup"
      /\ nsteps < max
      /\ ~HasKey(assocs, section, key)
      /\ disk' = Put(disk, path, Put(assocs, section, Put(entries, key, values)))
      /\ nsteps' = nsteps + 1
      /\ UNCHANGED <<files, opts, associations, seen_mimetypes, phase, nmods,
                     nres, mod, query, out, current_desktops, call>>

\* a desktop file is uninstalled
RemoveDesktopFile(path) ==
  /\ phase = "setup"
  /\ nsteps < MaxSteps
  /\ path \in files
  /\ files' = files \ {path}
  /\ nsteps' = nsteps + 1
  /\ UNCHANGED <<disk, opts, associations, seen_mimetypes, phase, nmods,
                 nres, mod, query, out, current_desktops, call>>

\* the process is started with one more option set off its default
Configure(option) ==
  /\ phase = "setup"
  /\ nsteps < MaxSteps
  /\ opts[option] = DefaultOpts[option]
  /\ opts' = [opts EXCEPT ![option] = ~@]
  /\ nsteps' = nsteps + 1
  /\ UNCHANGED <<disk, files, associations, seen_mimetypes, phase, nmods,
                 nres, mod, query, out, current_desktops, call>>

\* the Default Applications identifiers of every MIME-type asked about and
\* the paths they produce, with and without the existence check
DefaultsNow ==
  [names |-> [m \in QueryMimes |-> default_desktop_filenames(m)],
   paths |-> [x \in QueryMimes \X BOOLEAN |-> DefaultYields(x[1], x[2])]]

\* modify_associations(op, matcher, desktops); matcher None is no matcher.
\* main() makes its modifications before its queries.
ModifyUpTo(max_steps, max_mods, op, matcher, desktops) ==
  LET path == ModifiedPath
      assocs == get_associations(path)
      uses_known == matcher # None /\ IsPattern(matcher) /\ LoopsRun(op, desktops)
      mimetypes ==
        IF matcher # None
          THEN matching_mimetypes(matcher, FALSE)
          ELSE UNION {EntryMimeTypes(f) :
                        f \in search_desktop_paths_first(Range(desktops))}
      read == {path} \cup (IF uses_known /\ seen_mimetypes = {}
                             THEN KnownMimetypesPaths ELSE {})
  IN  /\ nres = 0
      /\ nsteps < max_steps
      /\ nmods < max_mods
      /\ matcher # None \/ desktops # <<>>
      /\ \E order \in (IF matcher # None THEN {desktops} ELSE Orders(desktops)) :
           LET final == remove_empty_associations(
                          Modified(assocs, op, mimetypes, order))
           IN  /\ disk' = save_associations(path, final)
               /\ associations' = Put(Loaded(read), path, final)
               /\ mod' = [op |-> op, matcher |-> matcher, desktops |-> desktops,
                          defaults |-> DefaultsNow,
                          tables |-> Put(Loaded(read), path, final)]
      /\ seen_mimetypes' = IF uses_known THEN known_mimetypes ELSE seen_mimetypes
      /\ phase' = "run"
      /\ nsteps' = nsteps + 1
      /\ nmods' = nmods + 1
      /\ UNCHANGED <<files, opts, nres, query, out, current_desktops, call>>

Modify(op, matcher, desktops) ==
  ModifyUpTo(MaxSteps, MaxMods, op, matcher, desktops)

\* while the process runs, something else rewrites or deletes a file that
\* the process has read
ChangeFile(slot, values) ==
  LET path == slot[1]
      section == slot[2]
      key == slot[3]
      assocs == load_associations(path)
      entries == IF section \in DOMAIN assocs THEN assocs[section]
                                              ELSE EmptyTable
  IN  /\ phase = "run"
      /\ nres < MaxResolves
      /\ nsteps < MaxSteps + MaxChanges
      /\ path \in DOMAIN associations
      /\ disk' = IF values = <<>>
                   THEN Del(disk, path)
                   ELSE Put(disk, path, Put(assocs, section, Put(entries, key, values)))
      /\ disk' # disk
      /\ nsteps' = nsteps + 1
      /\ UNCHANGED <<files, opts, associations, seen_mimetypes, phase, nmods,
                     nres, mod, query, out, current_desktops, call>>

\* mimetype_to_desktop_filepaths, consumed to its end
Resolve(mimetype, at_least_one, first_only, only_existing) ==
  LET g == Generated(mimetype, first_only, only_existing)
  IN  /\ nres < MaxResolves
      /\ phase' = "run"
      /\ nres' = nres + 1
      /\ out' = Decorated(g, at_least_one)
      /\ associations' = Loaded(Range(Mimeo_mimeapps_list_paths)
                                \cup CachesRead(g, first_only))
      /\ query' = [op |-> "resolve", mimetype |-> mimetype,
                   forms |-> Forms(mimetype),
                   at_least_one |-> at_least_one, first_only |-> first_only,
                   only_existing |-> only_existing]
      /\ UNCHANGED <<disk, files, opts, seen_mimetypes, nsteps, nmods, mod,
                     current_desktops, call>>

Next ==
  \/ \E slot \in SetupSlots, values \in EntryValues :
        WriteEntry(MaxSteps, slot, values)
  \/ \E path \in files : RemoveDesktopFile(path)
  \/ \E option \in DOMAIN DefaultOpts : Configure(option)
  \/ \E op \in Ops, matcher \in Matchers, desktops \in DesktopArgs :
        Modify(op, matcher, desktops)
  \/ \E mimetype \in QueryMimes, at_least_one \in BOOLEAN,
        first_only \in BOOLEAN, only_existing \in BOOLEAN :
        Resolve(mimetype, at_least_one, first_only, only_existing)

Spec == Init /\ [][Next]_vars

\* one system directory, both MIME-type forms as keys, one more setup step
NextForms ==
  \/ \E slot \in FormSlots, values \in EntryValues :
        WriteEntry(MaxFormSteps, slot, values)
  \/ \E mimetype \in FormQueryMimes, at_least_one \in BOOLEAN,
        first_only \in BOOLEAN, only_existing \in BOOLEAN :
        Resolve(mimetype, at_least_one, first_only, only_existing)

SpecForms == Init /\ [][NextForms]_vars

\* no list file anywhere: mimeinfo.cache files and desktop files only
NextCache ==
  \/ \E slot \in CacheSlots, values \in EntryValues :
        WriteEntry(MaxSteps, slot, values)
  \/ \E path \in files : RemoveDesktopFile(path)
  \/ \E mimetype \in QueryMimes, at_least_one \in BOOLEAN,
        first_only \in BOOLEAN, only_existing \in BOOLEAN :
        Resolve(mimetype, at_least_one, first_only, only_existing)

SpecCache == Init /\ [][NextCache]_vars

\* the user's and the system's list file are set up without removals, a
\* modification reads files, files that were read change on disk, and a
\* resolution follows
MemoSlots ==
  {<<path, section, TextPlain>> :
     path \in {UserListFile, SystemListFile},
     section \in {ADDED_ASSOCIATIONS_SECTION, DEFAULT_APPLICATIONS_SECTION}}

NextMemo ==
  \/ \E slot \in MemoSlots, values \in EntryValues :
        WriteEntry(MaxMemoSteps, slot, values)
  \/ \E op \in Ops, matcher \in {TextPlain, GlobAll},
        desktops \in {<<>>, <<"viewer.desktop">>} :
        Modify(op, matcher, desktops)
  \/ \E path \in {UserListFile, SystemListFile},
        section \in {ADDED_ASSOCIATIONS_SECTION, REMOVED_ASSOCIATIONS_SECTION},
        values \in EntryValues \cup {<<>>} :
        ChangeFile(<<path, section, TextPlain>>, values)
  \/ \E mimetype \in QueryMimes, at_least_one \in BOOLEAN,
        first_only \in BOOLEAN, only_existing \in BOOLEAN :
        Resolve(mimetype, at_least_one, first_only, only_existing)

SpecMemo == Init /\ [][NextMemo]_vars

-----------------------------------------------------------------------------
(* The text of a mimeapps.list file.  A line is the sequence of its pieces: *)
(* the characters " ", "#", "[", "]", "=", ";", "/" and runs of other       *)
(* characters.  In the tables read from lines, sections, keys and values   *)
(* are such sequences too.                                                  *)

\* str.strip() and str.rstrip()
strip(s) ==
  LET inked == {i \in 1..Len(s) : s[i] # " "}
  IN  IF inked = {} THEN <<>>
      ELSE SubSeq(s, CHOOSE i \in inked : \A j \in inked : i <= j,
                     CHOOSE i \in inked : \A j \in inked : i >= j)

rstrip(s) ==
  LET inked == {i \in 1..Len(s) : s[i] # " "}
  IN  IF inked = {} THEN <<>>
      ELSE SubSeq(s, 1, CHOOSE i \in inked : \A j \in inked : i >= j)

\* str.split(sep)
RECURSIVE split(_, _)
split(s, sep) ==
  LET i == IndexOf(s, sep)
  IN  IF i = 0 THEN <<s>>
      ELSE <<SubSeq(s, 1, i - 1)>> \o split(SubSeq(s, i + 1, Len(s)), sep)

\* the object None as a section, which is not the text 'None'
NoneSection == <<"<None>">>

\* one turn of the loop of parse_associations: st is [section, associations]
parse_line(st, raw) ==
  LET line == strip(raw)
      eq == IndexOf(line, "=")
      mimetype == rstrip(SubSeq(line, 1, eq - 1))
      parts == SelectSeq(split(SubSeq(line, eq + 1, Len(line)), ";"),
                         LAMBDA d : d # <<>>)
      \* os.path.basename of a string
      name(p) == SubSeq(p, LastIndexOf(p, "/") + 1, Len(p))
      desktops == [i \in 1..Len(parts) |-> name(strip(parts[i]))]
  IN  IF line = <<>> \/ line[1] = "#"
        THEN st
        ELSE IF line[1] = "[" /\ Last(line) = "]"
          THEN [st EXCEPT !.section = SubSeq(line, 2, Len(line) - 1)]
          ELSE IF eq = 0 \/ desktops = <<>>
            THEN st
            ELSE [st EXCEPT !.associations =
                    IF st.section \in DOMAIN st.associations
                      THEN Put(st.associations, st.section,
                               Put(st.associations[st.section], mimetype, desktops))
                      ELSE Put(st.associations, st.section,
                               Put(EmptyTable, mimetype, desktops))]

parse_associations(lines) ==
  LET st[n \in 0..Len(lines)] ==
        IF n = 0 THEN [section |-> NoneSection, associations |-> EmptyTable]
                 ELSE parse_line(st[n - 1], lines[n])
  IN  st[Len(lines)].associations

\* the lines that save_associations writes for a table that is not empty.
\* A table keeps no order of its keys: the order in which sorted() writes
\* them is any one order.
written_lines(assocs) ==
  LET entry(section, key) ==
        LET values == assocs[section][key]
            joined[n \in 0..Len(values)] ==
              IF n = 0 THEN <<>> ELSE joined[n - 1] \o values[n] \o <<";">>
        IN  IF values # <<>> THEN <<key \o <<"=">> \o joined[Len(values)]>>
                             ELSE <<>>
      entries(section) ==
        LET keys == SetToSeq(DOMAIN assocs[section])
        IN  Concat([i \in 1..Len(keys) |-> entry(section, keys[i])])
      block(section) ==
        IF DOMAIN assocs[section] # {}
          THEN <<<<"[">> \o (IF section = NoneSection THEN <<"None">> ELSE section)
                   \o <<"]">>>> \o entries(section)
          ELSE <<>>
      sections == SetToSeq(DOMAIN assocs)
  IN  Concat([i \in 1..Len(sections) |-> block(sections[i])])
        \o (IF Len(sections) > 1 THEN <<<<>>>> ELSE <<>>)

\* the file at the path after save_associations(path, assocs)
saved_file(assocs) ==
  LET kept == remove_empty_associations(assocs)
  IN  IF DOMAIN kept # {} THEN [exists |-> TRUE, lines |-> written_lines(kept)]
                          ELSE [exists |-> FALSE]

\* load_associations(path) after save_associations(path, assocs)
save_then_load(assocs) ==
  LET kept == remove_empty_associations(assocs)
  IN  IF DOMAIN kept # {} THEN parse_associations(written_lines(kept))
                          ELSE EmptyTable

-----------------------------------------------------------------------------
(* Commands.  An Exec template, a word and an argument are sequences of     *)
(* pieces as the lines of a file are: the characters " " and "%", the      *)
(* letters of the field codes, "://" and runs of other characters.  A URL  *)
(* is <<scheme, "://", host, path>>.  A word of a command that was built   *)
(* is the sequence of its pieces.                                          *)

\* ensure_path: the argument itself when it is no URL, the path of a file
\* URL of this host, None otherwise
ensure_path(arg) ==
  IF ~(Len(arg) > 1 /\ arg[2] = "://") THEN arg
  ELSE IF arg[1] = "file" /\ arg[3] \in {"", "localhost"}
         THEN SubSeq(arg, 4, Len(arg))
         ELSE None

\* ensure_url: a URL as it is, a path as the file URL of its absolute path
\* (the pieces of the model's paths hold nothing that is quoted)
ensure_url(arg) ==
  IF Len(arg) > 1 /\ arg[2] = "://" THEN arg
  ELSE <<"file", "://", "", "/cwd/">> \o arg

\* the characters that parse_unexpandable_field_codes yields from the i-th
\* on; field_code tells that the one before was "%"
RECURSIVE parse_unexpandable_field_codes(_, _, _, _)
parse_unexpandable_field_codes(word, field_codes, i, field_code) ==
  IF i > Len(word) THEN <<>>
  ELSE IF field_code
    THEN (IF word[i] \in DOMAIN field_codes THEN field_codes[word[i]] ELSE <<>>)
           \o parse_unexpandable_field_codes(word, field_codes, i + 1, FALSE)
    ELSE IF word[i] = "%"
      THEN parse_unexpandable_field_codes(word, field_codes, i + 1, TRUE)
      ELSE <<word[i]>>
             \o parse_unexpandable_field_codes(word, field_codes, i + 1, FALSE)

\* the words that parse_field_codes yields for one word of the template
parse_field_codes(word, name, args, icon, path, omit_empty) ==
  IF word = <<"%", "i">>
    THEN IF icon # <<>> THEN <<<<"--icon">>, icon>> ELSE <<>>
  ELSE IF word = <<"%", "F">>
    THEN SelectSeq([i \in 1..Len(args) |-> ensure_path(args[i])],
                   LAMBDA p : p # <<>>)
  ELSE IF word = <<"%", "U">>
    THEN [i \in 1..Len(args) |-> ensure_url(args[i])]
  ELSE IF word \in {<<"%", "f">>, <<"%", "u">>} /\ args = <<>>
    THEN <<>>
  ELSE LET field_codes ==
             [c \in {"%", "c", "k", "f", "u"} |->
                CASE c = "%" -> <<"%">>
                  [] c = "c" -> name
                  [] c = "k" -> path
                  [] c = "f" -> IF args # <<>> THEN ensure_path(args[1]) ELSE <<>>
                  [] c = "u" -> IF args # <<>> THEN ensure_url(args[1]) ELSE <<>>]
           interpolated_word ==
             parse_unexpandable_field_codes(word, field_codes, 1, FALSE)
       IN  IF \/ interpolated_word # <<>>
              \/ ~omit_empty
              \/ word \notin {<<"%", "k">>, <<"%", "f">>, <<"%", "u">>}
             THEN <<interpolated_word>>
             ELSE <<>>

\* the template is left as it is
replace_nothing(exe) == exe

\* exe.replace('%%', '')
RECURSIVE replace_percents(_)
replace_percents(exe) ==
  IF exe = <<>> THEN <<>>
  ELSE IF Len(exe) > 1 /\ exe[1] = "%" /\ exe[2] = "%"
    THEN replace_percents(SubSeq(exe, 3, Len(exe)))
    ELSE <<exe[1]>> \o replace_percents(Tail(exe))

\* the codes among f, u, F, U that exec_field_to_cmds_without_term finds
file_codes(exe) ==
  LET test_exe == replace_percents(exe)
  IN  {c \in {"f", "u", "F", "U"} :
         \E i \in 1..(Len(test_exe) - 1) : test_exe[i] = "%" /\ test_exe[i + 1] = c}

\* shlex.split(s): the words of s from its i-th piece on.  quote is the
\* quotation mark that is open ("" when none is), word the word read so far
\* and started tells whether a word has begun.  The strings of the model
\* close their quotation marks.
RECURSIVE shlex_scan(_, _, _, _, _)
shlex_scan(s, i, quote, word, started) ==
  IF i > Len(s) THEN (IF started THEN <<word>> ELSE <<>>)
  ELSE IF quote = ""
    THEN IF s[i] = " "
           THEN (IF started THEN <<word>> ELSE <<>>)
                  \o shlex_scan(s, i + 1, "", <<>>, FALSE)
         ELSE IF s[i] \in {"'", "\""}
           THEN shlex_scan(s, i + 1, s[i], word, TRUE)
         ELSE IF s[i] = "\\" /\ i < Len(s)
           THEN shlex_scan(s, i + 2, "", Append(word, s[i + 1]), TRUE)
         ELSE shlex_scan(s, i + 1, "", Append(word, s[i]), TRUE)
  ELSE IF s[i] = quote
    THEN shlex_scan(s, i + 1, "", word, TRUE)
  ELSE IF quote = "\"" /\ s[i] = "\\" /\ i < Len(s) /\ s[i + 1] \in {"\"", "\\"}
    THEN shlex_scan(s, i + 2, quote, Append(word, s[i + 1]), TRUE)
  ELSE shlex_scan(s, i + 1, quote, Append(word, s[i]), TRUE)

shlex_split(s) == shlex_scan(s, 1, "", <<>>, FALSE)

\* the argument lists for which a command is built
argss_together(args, single) == <<args>>

argss(args, single) ==
  IF args = <<>> THEN <<<<>>>>
  ELSE IF single THEN [i \in 1..Len(args) |-> <<args[i]>>]
  ELSE <<args>>

\* the generator consumed to its end: whether it raised ValidationError and
\* the commands it yielded
exec_field_to_cmds_without_term(exe, args, name, icon, path) ==
  LET codes == file_codes(exe)
      single == codes \cap {"f", "u"} # {}
      words == shlex_split(exe)
      lists == argss(args, single)
  IN  IF Cardinality(codes) > 1
        THEN [raised |-> TRUE, cmds |-> <<>>]
        ELSE [raised |-> FALSE,
              cmds |-> [a \in 1..Len(lists) |->
                          Concat([w \in 1..Len(words) |->
                                    parse_field_codes(words[w], name, lists[a],
                                                      icon, path, FALSE)])]]

\* shlex.quote of a word: in single quotes when it is empty or holds a space
shlex_quote(w) ==
  IF w = <<>> \/ " " \in Range(w) THEN <<"'">> \o w \o <<"'">> ELSE w

\* the words that interpolate_term_cmd yields
interpolate_term_cmd(term_cmd, app_cmd) ==
  LET joined[n \in 0..Len(app_cmd)] ==
        IF n = 0 THEN <<>>
        ELSE (IF n = 1 THEN <<>> ELSE joined[n - 1] \o <<" ">>)
               \o shlex_quote(app_cmd[n])
      app_cmd_word == joined[Len(app_cmd)]
      interpolated(word) ==
        LET st[n \in 0..Len(word)] ==
              IF n = 0 THEN [iword |-> <<>>, escaped |-> FALSE]
              ELSE IF st[n - 1].escaped
                THEN [iword |-> st[n - 1].iword
                                  \o (IF word[n] = "s" THEN app_cmd_word
                                                       ELSE <<word[n]>>),
                      escaped |-> FALSE]
                ELSE IF word[n] = "%"
                  THEN [iword |-> st[n - 1].iword, escaped |-> TRUE]
                  ELSE [iword |-> st[n - 1].iword \o <<word[n]>>,
                        escaped |-> FALSE]
        IN  st[Len(word)].iword
      yielded(word) ==
        IF word = <<"%", "s">> THEN app_cmd
        ELSE IF word = <<"'", "%", "s", "'">> THEN <<app_cmd_word>>
        ELSE <<interpolated(word)>>
      words == shlex_split(term_cmd)
  IN  Concat([i \in 1..Len(words) |-> yielded(words[i])])

\* exec_field_to_cmds consumed to its end; term_cmd is None when no terminal
\* command is configured
exec_field_to_cmds(exe, args, name, icon, path, is_term, term_cmd) ==
  LET app == exec_field_to_cmds_without_term(exe, args, name, icon, path)
  IN  [raised |-> app.raised,
       cmds |-> [i \in 1..Len(app.cmds) |->
                   IF is_term /\ term_cmd # None
                     THEN interpolate_term_cmd(term_cmd, app.cmds[i])
                     ELSE app.cmds[i]]]

-----------------------------------------------------------------------------
(* Custom associations.  A regular expression is the sequence of its        *)
(* pieces: literal pieces, with "^" as its first piece or "$" as its last   *)
(* when it is anchored.  A rule is <<regex, cmd>>, the command being an     *)
(* Exec template.                                                           *)

\* regex.search(a)
regex_search(regex, a) ==
  LET at_start == regex # <<>> /\ regex[1] = "^"
      at_end == regex # <<>> /\ regex[Len(regex)] = "$"
      body == SubSeq(regex, IF at_start THEN 2 ELSE 1,
                     IF at_end THEN Len(regex) - 1 ELSE Len(regex))
  IN  \E k \in 0..(Len(a) - Len(body)) :
        /\ SubSeq(a, k + 1, k + Len(body)) = body
        /\ at_start => k = 0
        /\ at_end => k + Len(body) = Len(a)

\* the inner loop of args_to_custom_cmds for the argument a, from the j-th
\* rule on: what it yields and whether it sets found_one
RECURSIVE custom_cmds_of_arg(_, _, _, _)
custom_cmds_of_arg(mimeo_assocs, a, j, first_only) ==
  IF j > Len(mimeo_assocs) THEN [yielded |-> <<>>, found_one |-> FALSE]
  ELSE IF regex_search(mimeo_assocs[j][1], a)
    THEN IF first_only
           THEN [yielded |-> <<<<a, mimeo_assocs[j][2]>>>>, found_one |-> FALSE]
           ELSE LET rest == custom_cmds_of_arg(mimeo_assocs, a, j + 1, first_only)
                IN  [yielded |-> <<<<a, mimeo_assocs[j][2]>>>> \o rest.yielded,
                     found_one |-> TRUE]
    ELSE custom_cmds_of_arg(mimeo_assocs, a, j + 1, first_only)

\* args_to_custom_cmds, consumed to its end: pairs <<a, cmd>> and None
args_to_custom_cmds(mimeo_assocs, args, at_least_one, first_only) ==
  Concat([i \in 1..Len(args) |->
            LET r == custom_cmds_of_arg(mimeo_assocs, args[i], 1, first_only)
            IN  r.yielded \o (IF ~r.found_one /\ at_least_one THEN <<None>>
                                                               ELSE <<>>)])

-----------------------------------------------------------------------------
(* Arguments.  An argument is the sequence of its pieces; a URL is          *)
(* <<scheme, "://", host, path>>.                                           *)

OctetStream == <<"a", "/", "o">>

\* MIMETYPE_SCHEME_FMT.format(scheme)
MIMETYPE_SCHEME_FMT(scheme) == <<"x-scheme-handler", "/", scheme>>

\* the regular files that arguments name: "f", which xdg.Mime takes for a/o
\* by its name and for t/p by its content, and "g", t/p by both
RegularFiles == {<<"f">>, <<"g">>}

file_mimetype_by_name(path) ==
  CASE path = <<"f">> -> OctetStream
    [] path = <<"g">> -> TextPlain
    [] OTHER -> None

file_mimetype_by_content(path) ==
  IF path \in RegularFiles THEN TextPlain ELSE None

\* the options of Mimeo.__init__ for the detection, at their defaults
by_content_first == FALSE
by_content_only == FALSE
by_name_only == FALSE

file_mimetype(path, content_first, content_only, name_only) ==
  LET by_name == file_mimetype_by_name(path)
      by_content == file_mimetype_by_content(path)
      found == IF content_only THEN <<by_content>>
               ELSE IF name_only THEN <<by_name>>
               ELSE IF content_first THEN <<by_content, by_name>>
               ELSE <<by_name, by_content>>
  IN  unique_items(SelectSeq(found, LAMBDA t : t # None))

\* every path of the model is a regular file or no file at all
mimetypes_from_path(arg, content_first, content_only, name_only) ==
  unique_items(
    IF arg \in RegularFiles
      THEN file_mimetype(arg, content_first, content_only, name_only)
      ELSE IF file_mimetype_by_name(arg) # None
             THEN <<file_mimetype_by_name(arg)>>
             ELSE <<>>)

\* urllib.parse.urlparse(arg).scheme
url_scheme(arg) == IF Len(arg) > 1 /\ arg[2] = "://" THEN arg[1] ELSE ""

\* the MIME-types that arg_to_mimetypes yields before its None, and whether
\* it went as far as known_mimetypes.  The arguments of the model are no
\* patterns: at most one known MIME-type matches.
arg_mimetypes(arg, first_only) ==
  LET path == ensure_path(arg)
      from_path == IF path # None
                     THEN mimetypes_from_path(path, by_content_first,
                                              by_content_only, by_name_only)
                     ELSE <<>>
      scheme == url_scheme(arg)
      from_scheme == IF scheme # "" THEN <<MIMETYPE_SCHEME_FMT(scheme)>>
                                    ELSE <<>>
      early == from_path \o from_scheme
  IN  IF first_only /\ early # <<>>
        THEN [yielded |-> <<early[1]>>, known |-> FALSE]
        ELSE LET matched == SetToSeq(matching_mimetypes(arg, TRUE))
                 all == early \o matched
             IN  [yielded |-> IF first_only /\ all # <<>> THEN <<all[1]>> ELSE all,
                  known |-> TRUE]

arg_to_mimetypes(arg, at_least_one, first_only) ==
  LET ms == arg_mimetypes(arg, first_only).yielded
  IN  ms \o (IF ms = <<>> /\ at_least_one THEN <<None>> ELSE <<>>)

\* the loops of args_to_desktop_paths for one argument: the pairs they yield,
\* the MIME-types they resolve and whether strip_mimetype was given None
\* (AttributeError)
\* the pairs yielded for one MIME-type of an argument: the loop over the
\* desktop paths ds breaks after the first one with first_only
pairs_of_arg(a, ds, first_only) ==
  [i \in 1..(IF first_only /\ ds # <<>> THEN 1 ELSE Len(ds)) |-> <<a, ds[i]>>]

\* mimetype_to_desktop_filepaths for one MIME-type of an argument, given
\* what its undecorated generator yields: the pairs, and the files read
resolution_of_arg(a, g, at_least_one, first_only) ==
  [pairs |-> pairs_of_arg(a, Decorated(g, at_least_one), first_only),
   reads |-> Range(Mimeo_mimeapps_list_paths) \cup CachesRead(g, first_only)]

resolutions_of_arg(ms, rs) ==
  [raised |-> FALSE,
   yielded |-> Concat([i \in 1..Len(rs) |-> rs[i].pairs]),
   resolved |-> Range(ms),
   reads |-> UNION {rs[i].reads : i \in 1..Len(rs)}]

desktop_paths_of_mimetypes(a, ms, at_least_one, first_only, only_existing) ==
  IF ms = <<None>>
    THEN [raised |-> TRUE, yielded |-> <<>>, resolved |-> {}, reads |-> {}]
    ELSE resolutions_of_arg(
           ms,
           [i \in 1..Len(ms) |->
              resolution_of_arg(a, Generated(ms[i], first_only, only_existing),
                                at_least_one, first_only)])

desktop_paths_of_arg(a, at_least_one, first_only, only_existing) ==
  desktop_paths_of_mimetypes(a, arg_to_mimetypes(a, at_least_one, first_only),
                             at_least_one, first_only, only_existing)

\* the arguments that are looked at: all of them, or those up to the one
\* for which the exception is raised
RECURSIVE ArgsReached(_, _, _)
ArgsReached(args, at_least_one, first_only) ==
  IF args = <<>> THEN <<>>
  ELSE IF arg_to_mimetypes(Head(args), at_least_one, first_only) = <<None>>
    THEN <<Head(args)>>
    ELSE <<Head(args)>> \o ArgsReached(Tail(args), at_least_one, first_only)

\* args_to_desktop_paths, consumed to its end or to its exception
\* what the runs for the arguments that were reached amount to
desktop_paths_of_args(reached, runs, first_only) ==
  [raised |-> \E i \in 1..Len(runs) : runs[i].raised,
   yielded |-> unique_items(Concat([i \in 1..Len(runs) |-> runs[i].yielded])),
   resolved |-> UNION {runs[i].resolved : i \in 1..Len(runs)},
   reads |-> UNION {runs[i].reads : i \in 1..Len(runs)},
   known |-> \E i \in 1..Len(reached) :
               arg_mimetypes(reached[i], first_only).known]

desktop_paths_of_reached(reached, at_least_one, first_only, only_existing) ==
  desktop_paths_of_args(reached,
                        [i \in 1..Len(reached) |->
                           desktop_paths_of_arg(reached[i], at_least_one,
                                                first_only, only_existing)],
                        first_only)

args_to_desktop_paths(args, at_least_one, first_only, only_existing) ==
  desktop_paths_of_reached(ArgsReached(args, at_least_one, first_only),
                           at_least_one, first_only, only_existing)

\* Mimeo.args_to_desktop_paths(args, ...), consumed
ArgsToDesktopPaths(args, at_least_one, first_only, only_existing) ==
  /\ nres < MaxResolves
  /\ \E r \in {args_to_desktop_paths(args, at_least_one, first_only, only_existing)} :
      /\ phase' = "run"
      /\ nres' = nres + 1
      /\ out' = r.yielded
      /\ seen_mimetypes' = IF r.known THEN known_mimetypes ELSE seen_mimetypes
      /\ associations' =
           Loaded((IF r.known /\ seen_mimetypes = {} THEN KnownMimetypesPaths
                                                      ELSE {})
                  \cup r.reads)
      /\ query' = [op |-> "args_to_desktop_paths", args |-> args,
                   at_least_one |-> at_least_one, first_only |-> first_only,
                   only_existing |-> only_existing, raised |-> r.raised]
      /\ UNCHANGED <<disk, files, opts, nsteps, nmods, mod, current_desktops,
                     call>>

\* the entries that the setup steps write for the MIME-types of the files
ArgSlots ==
  {<<path, section, key>> :
     path \in {UserListFile},
     section \in {ADDED_ASSOCIATIONS_SECTION, DEFAULT_APPLICATIONS_SECTION},
     key \in {TextPlain, OctetStream}}

\* arguments: the two files, a path that is no file, a URL and a MIME-type
ArgLists ==
  UNION {[1..n -> {<<"f">>, <<"g">>, <<"n">>, <<"s", "://", "h", "/p">>,
                   TextPlain}] : n \in 0..MaxArgs}

NextArgs ==
  \/ \E slot \in ArgSlots, values \in {<<"viewer.desktop">>, <<"editor.desktop">>} :
        WriteEntry(MaxSteps, slot, values)
  \/ \E path \in files : RemoveDesktopFile(path)
  \/ \E args \in ArgLists, at_least_one \in BOOLEAN, first_only \in BOOLEAN,
        only_existing \in BOOLEAN :
        ArgsToDesktopPaths(args, at_least_one, first_only, only_existing)

SpecArgs == Init /\ [][NextArgs]_vars

-----------------------------------------------------------------------------
(* Commands for arguments.  A command precursor is <<cmd, None>> for a      *)
(* custom command and <<None, d>> for the desktop file at d.                *)

\* every argument goes on to the MIME-types
remaining_args_all(args, yielded, first_only) == args

\* the arguments that args_to_cmd_precursors hands to args_to_desktop_paths
remaining_args(args, yielded, first_only) ==
  IF first_only THEN SelectSeq(args, LAMBDA a : a \notin yielded) ELSE args

\* args_to_cmd_precursors, consumed: the pairs <<a, precursor>> it yields and
\* the run of args_to_desktop_paths inside it
\* the arguments for which a custom command was yielded
custom_yielded(custom) == {custom[i][1] : i \in 1..Len(custom)}

\* the precursors of the custom commands, then those of the desktop paths
\* of the run, then None for every argument that had neither
precursors_of_run(custom, run, args, at_least_one) ==
  LET yielded == custom_yielded(custom)
                   \cup {run.yielded[i][1] : i \in 1..Len(run.yielded)}
      missed == SelectSeq(args, LAMBDA a : a \notin yielded)
  IN  [yielded |->
         [i \in 1..Len(custom) |-> <<custom[i][1], <<custom[i][2], None>>>>]
         \o [i \in 1..Len(run.yielded) |->
               <<run.yielded[i][1], <<None, run.yielded[i][2]>>>>]
         \o (IF at_least_one THEN [i \in 1..Len(missed) |-> <<missed[i], None>>]
                             ELSE <<>>),
       run |-> run]

precursors_after_custom(custom, args, at_least_one, first_only) ==
  precursors_of_run(custom,
                    args_to_desktop_paths(
                      remaining_args(args, custom_yielded(custom), first_only),
                      FALSE, first_only, TRUE),
                    args, at_least_one)

args_to_cmd_precursors(mimeo_assocs, args, at_least_one, first_only) ==
  precursors_after_custom(IF mimeo_assocs # <<>>
                            THEN args_to_custom_cmds(mimeo_assocs, args, FALSE,
                                                     first_only)
                            ELSE <<>>,
                          args, at_least_one, first_only)

\* collect_b_by_a over the swapped pairs: the precursors in the order of
\* their first appearance, each with its arguments, no argument twice
RECURSIVE collect_b_by_a(_, _)
collect_b_by_a(itr, b_by_a) ==
  IF itr = <<>> THEN b_by_a
  ELSE LET a == Head(itr)[1]
           b == Head(itr)[2]
           at == {i \in 1..Len(b_by_a) : b_by_a[i][1] = a}
       IN  collect_b_by_a(
             Tail(itr),
             IF at = {} THEN Append(b_by_a, <<a, <<b>>>>)
             ELSE [i \in 1..Len(b_by_a) |->
                     IF i \in at /\ b \notin Range(b_by_a[i][2])
                       THEN <<a, Append(b_by_a[i][2], b)>>
                       ELSE b_by_a[i]])

swap_a_and_b(itr) == [i \in 1..Len(itr) |-> <<itr[i][2], itr[i][1]>>]

\* the desktop files of the model: getExec, getName, getIcon, getTerminal
EntryExec(path) ==
  IF Last(path) = "viewer.desktop" THEN <<"viewer", " ", "%", "f">>
                                   ELSE <<"editor", " ", "%", "F">>

desktop_entry_to_cmds(path, args, term_cmd) ==
  exec_field_to_cmds(EntryExec(path), args, <<"Name">>, <<>>, path, FALSE,
                     term_cmd)

\* args_to_cmds, consumed: the commands in the order of their precursors,
\* up to the first Exec field that raises ValidationError
\* the commands of one precursor pc with its arguments aa
cmds_of_precursor(pc, aa) ==
  IF pc = None THEN [raised |-> FALSE, cmds |-> <<>>]
  ELSE IF pc[1] # None
    THEN exec_field_to_cmds(pc[1], aa, <<"User Command">>, <<>>, <<>>, FALSE,
                            None)
    ELSE desktop_entry_to_cmds(pc[2], aa, None)

\* the commands built, up to the first Exec field that raises
cmds_up_to_failure(built, run) ==
  LET failed == {i \in 1..Len(built) : built[i].raised}
      upto == IF failed = {} THEN Len(built)
              ELSE (CHOOSE i \in failed : \A j \in failed : i <= j) - 1
  IN  [raised |-> failed # {},
       cmds |-> Concat([i \in 1..upto |-> built[i].cmds]),
       run |-> run]

cmds_by_precursor(a_by_b, run) ==
  cmds_up_to_failure([i \in 1..Len(a_by_b) |->
                        cmds_of_precursor(a_by_b[i][1], a_by_b[i][2])],
                     run)

cmds_of_precursors(a_to_b) ==
  cmds_by_precursor(collect_b_by_a(swap_a_and_b(a_to_b.yielded), <<>>),
                    a_to_b.run)

args_to_cmds(mimeo_assocs, args, first_only) ==
  cmds_of_precursors(args_to_cmd_precursors(mimeo_assocs, args, TRUE,
                                            first_only))

\* the state of the Mimeo object after the run of args_to_desktop_paths
AfterRun(run, first_only) ==
  /\ seen_mimetypes' = IF run.known THEN known_mimetypes ELSE seen_mimetypes
  /\ associations' =
       Loaded((IF run.known /\ seen_mimetypes = {} THEN KnownMimetypesPaths
                                                    ELSE {})
              \cup run.reads)

\* Mimeo.args_to_cmd_precursors of an object with the given custom
\* associations, consumed
ArgsToCmdPrecursors(mimeo_assocs, args, at_least_one, first_only) ==
  /\ nres < MaxResolves
  /\ \E r \in {args_to_cmd_precursors(mimeo_assocs, args, at_least_one, first_only)} :
      /\ phase' = "run"
      /\ nres' = nres + 1
      /\ out' = r.yielded
      /\ AfterRun(r.run, first_only)
      /\ query' = [op |-> "args_to_cmd_precursors", mimeo_assocs |-> mimeo_assocs,
                   args |-> args, at_least_one |-> at_least_one,
                   first_only |-> first_only,
                   reads |-> r.run.reads, known |-> r.run.known]
      /\ UNCHANGED <<disk, files, opts, nsteps, nmods, mod, current_desktops,
                     call>>

\* Mimeo.args_to_cmds of an object with the given custom associations,
\* consumed
ArgsToCmds(mimeo_assocs, args, first_only) ==
  /\ nres < MaxResolves
  /\ \E r \in {args_to_cmds(mimeo_assocs, args, first_only)} :
      /\ phase' = "run"
      /\ nres' = nres + 1
      /\ out' = r.cmds
      /\ AfterRun(r.run, first_only)
      /\ query' = [op |-> "args_to_cmds", mimeo_assocs |-> mimeo_assocs,
                   args |-> args, first_only |-> first_only,
                   raised |-> r.raised]
      /\ UNCHANGED <<disk, files, opts, nsteps, nmods, mod, current_desktops,
                     call>>

\* rules for the arguments: for "g" anywhere, a command without field code;
\* for "f" alone, a command with one
ArgRules ==
  { <<<<"g">>, <<"echo">>>>,
    <<<<"^", "f", "$">>, <<"edit", " ", "%", "f">>>> }

ArgMimeoAssocs == UNION {[1..n -> ArgRules] : n \in 0..MaxRules}

LaunchSlots ==
  {<<UserListFile, section, key>> :
     section \in {ADDED_ASSOCIATIONS_SECTION, DEFAULT_APPLICATIONS_SECTION},
     key \in {TextPlain, OctetStream}}

NextLaunch ==
  \/ \E slot \in LaunchSlots, values \in EntryValues :
        WriteEntry(MaxLaunchSteps, slot, values)
  \/ \E mimeo_assocs \in ArgMimeoAssocs, args \in ArgLists,
        at_least_one \in BOOLEAN, first_only \in BOOLEAN :
        ArgsToCmdPrecursors(mimeo_assocs, args, at_least_one, first_only)
  \/ \E mimeo_assocs \in ArgMimeoAssocs, args \in ArgLists,
        first_only \in BOOLEAN :
        ArgsToCmds(mimeo_assocs, args, first_only)

SpecLaunch == Init /\ [][NextLaunch]_vars

-----------------------------------------------------------------------------
(* Desktop files that are written.  A word is the sequence of its pieces:   *)
(* the reserved characters and runs of other characters.                    *)

\* the grave accent, the character 0x60
Backquote == "<backquote>"

EXEC_RESERVED ==
  {" ", "\t", "\n", "\"", "'", "\\", ">", "<", "~", "|", "&", ";", "$", "*",
   "?", "#", "(", ")", Backquote}
EXEC_ESCAPED == {"\"", Backquote, "$", "\\"}

\* the characters that the generator exec_quote_word yields, joined
exec_quote_word(word) ==
  <<"\"">>
    \o Concat([i \in 1..Len(word) |->
                 IF word[i] \in EXEC_ESCAPED THEN <<"\\", "c">> ELSE <<word[i]>>])
    \o <<"\"">>

\* the items that exec_quote_exec yields: a word as it is, a string, or the
\* generator exec_quote_word(word), which is not one
exec_quote_exec(cmd) ==
  [i \in 1..Len(cmd) |->
     IF Range(cmd[i]) \cap EXEC_RESERVED # {}
       THEN [type |-> "generator", yields |-> exec_quote_word(cmd[i])]
       ELSE [type |-> "str", value |-> cmd[i]]]

\* create_desktop_entry(path, name, cmd, mimetypes, is_term): the exception
\* raised, if any, and the lines of the file at the path afterwards (None
\* when it was not opened, no line when nothing was written to it)
create_desktop_entry(name, cmd, mimetypes, is_term) ==
  LET items == exec_quote_exec(cmd)
      joined == Concat([i \in 1..Len(items) |->
                          (IF i = 1 THEN <<>> ELSE <<" ">>) \o items[i].value])
      types == Concat([i \in 1..Len(mimetypes) |->
                         (IF i = 1 THEN <<>> ELSE <<";">>) \o mimetypes[i]])
  IN  IF name = <<>> \/ cmd = <<>> \/ mimetypes = <<>>
        THEN [raised |-> "ValueError", lines |-> None]
      ELSE IF \E i \in 1..Len(items) : items[i].type # "str"
        THEN [raised |-> "TypeError", lines |-> <<>>]
      ELSE [raised |-> "none",
            lines |-> << <<"[Desktop Entry]">>,
                         <<"Type=Application">>,
                         <<"Name", "=">> \o name,
                         <<"Exec", "=">> \o joined,
                         <<"MimeType", "=">> \o types \o <<";">>,
                         <<"Terminal", "=", IF is_term THEN "true" ELSE "false">>,
                         <<"NoDisplay=true">>,
                         <<"Comment=Created by Mimeo">> >>]

-----------------------------------------------------------------------------
(* mimeinfo.cache files *)

\* what a run of update-desktop-database may do: exit with 0 having written
\* the cache file, or exit with another status with or without the file
\* written
ToolRuns ==
  {r \in [returncode : {0, 1}, wrote : BOOLEAN] : r.returncode = 0 => r.wrote}

\* maybe_create_mimeinfo_cache(fpath, force) for a cache file that exists or
\* not, in a directory with or without desktop files, when a run of the
\* tool would go as given: whether an exception is raised, what is
\* returned and whether the file exists afterwards
maybe_create_mimeinfo_cache(exists, has_desktop_files, force, tool) ==
  IF force \/ ~exists
    THEN IF has_desktop_files
           THEN [raised |-> FALSE, returned |-> TRUE, ran |-> TRUE,
                 exists |-> exists \/ tool.wrote]
           ELSE [raised |-> FALSE, returned |-> FALSE, ran |-> FALSE,
                 exists |-> exists]
    ELSE [raised |-> FALSE, returned |-> TRUE, ran |-> FALSE, exists |-> exists]

-----------------------------------------------------------------------------
(* Queries of the known MIME-types *)

\* "t/vxp", which the unescaped "t/v.p" would accept, and "t/n", which no
\* file of the system knows
DotAlias == <<"t", "/", "v", "x", "p">>
NewType == <<"t", "/", "n">>

\* Mimeo.matching_mimetypes(matcher, ensure_known), consumed: the set of
\* what it yields (it iterates over a set)
MatchingMimetypes(matcher, ensure_known) ==
  LET uses_known == IsPattern(matcher) \/ ensure_known
  IN  /\ nres < MaxResolves
      /\ phase' = "run"
      /\ nres' = nres + 1
      /\ out' = matching_mimetypes(matcher, ensure_known)
      /\ seen_mimetypes' = IF uses_known THEN known_mimetypes ELSE seen_mimetypes
      /\ associations' = IF uses_known /\ seen_mimetypes = {}
                           THEN Loaded(KnownMimetypesPaths) ELSE associations
      /\ query' = [op |-> "matching_mimetypes", matcher |-> matcher,
                   ensure_known |-> ensure_known]
      /\ UNCHANGED <<disk, files, opts, nsteps, nmods, mod, current_desktops,
                     call>>

\* the entries that the setup steps write: keys of list files and of a cache
MatchSlots ==
  {<<UserListFile, section, key>> :
     section \in {ADDED_ASSOCIATIONS_SECTION, DEFAULT_APPLICATIONS_SECTION,
                  REMOVED_ASSOCIATIONS_SECTION},
     key \in {TextPlain, DotAlias, NewType}}
    \cup {<<SystemCacheFile, MIME_CACHE_SECTION, key>> : key \in {DotAlias, NewType}}

\* literals, globs and regular expressions
MatchMatchers ==
  { TextPlain, TreeForm, NewType,
    MATCHER_PREFIX_GLOB \o <<"t", "/", "*">>,
    MATCHER_PREFIX_GLOB \o <<"t", "/", "v", "?", "p">>,
    MATCHER_PREFIX_REGEX \o <<"t", "/", "v">>,
    MATCHER_PREFIX_REGEX \o <<"t", "/", ".", "$">>,
    MATCHER_PREFIX_REGEX \o <<"/", "p">> }

NextMatch ==
  \/ \E slot \in MatchSlots, values \in {<<"viewer.desktop">>} :
        WriteEntry(MaxSteps, slot, values)
  \/ \E matcher \in MatchMatchers, ensure_known \in BOOLEAN :
        MatchingMimetypes(matcher, ensure_known)

SpecMatch == Init /\ [][NextMatch]_vars

\* main() makes the modifications of its command line one after another
\* with one Mimeo object; a query of the known MIME-types follows
KnownMatchers ==
  {TextPlain, NewType, GlobAll, MATCHER_PREFIX_REGEX \o <<"t", "/", ".", "$">>}

NextKnown ==
  \/ \E slot \in {<<UserListFile, ADDED_ASSOCIATIONS_SECTION, DotAlias>>,
                   <<SystemCacheFile, MIME_CACHE_SECTION, DotAlias>>} :
        WriteEntry(MaxSteps - 1, slot, <<"viewer.desktop">>)
  \/ \E op \in {"add", "prefer", "unadd"}, matcher \in KnownMatchers,
        desktops \in {<<"viewer.desktop">>, <<"editor.desktop">>} :
        ModifyUpTo(MaxSteps + MaxKnownMods, MaxKnownMods, op, matcher, desktops)
  \/ \E matcher \in KnownMatchers, ensure_known \in BOOLEAN :
        MatchingMimetypes(matcher, ensure_known)

SpecKnown == Init /\ [][NextKnown]_vars

-----------------------------------------------------------------------------
(* Calls of the module-level functions *)

\* the values of XDG_CURRENT_DESKTOP: unset, one desktop, two desktops
DesktopOrders == {<<>>, <<"x">>, <<"y">>, <<"x", "y">>, <<"y", "x">>}

InitCalls ==
  /\ disk = [p \in {} |-> EmptyTable]
  /\ files = {join(d, x) : d \in {UserAppDir, SystemAppDir}, x \in Desktops}
  /\ opts = DefaultOpts
  /\ associations = [p \in {} |-> EmptyTable]
  /\ seen_mimetypes = {}
  /\ phase = "run"
  /\ nsteps = 0
  /\ nmods = 0
  /\ nres = 0
  /\ mod = [op |-> "none"]
  /\ query = [op |-> "none"]
  /\ out = <<>>
  /\ current_desktops \in DesktopOrders
  /\ call = [fn |-> "none"]

\* one call of a function, which changes nothing but what is recorded of it
Returns(fn, args, result) ==
  /\ call.fn = "none"
  /\ call' = [fn |-> fn, args |-> args, result |-> result]
  /\ UNCHANGED <<disk, files, opts, associations, seen_mimetypes, phase,
                 nsteps, nmods, nres, mod, query, out, current_desktops>>

\* the value lists and tables given to the table functions
CallLists ==
  UNION {[1..n -> {"viewer.desktop", "editor.desktop", "other.desktop"}] :
           n \in 0..MaxLen}

CallTables ==
  {EmptyTable, Put(EmptyTable, ADDED_ASSOCIATIONS_SECTION, EmptyTable)}
    \cup {Put(EmptyTable, ADDED_ASSOCIATIONS_SECTION, Put(EmptyTable, TextPlain, l)) :
            l \in CallLists}
    \cup {Put(EmptyTable, ADDED_ASSOCIATIONS_SECTION,
               Put(Put(EmptyTable, TreeForm, <<"other.desktop">>), TextPlain, l)) :
            l \in CallLists}

\* a table with a section, a key and a value, each of which may be empty
TableArgs ==
  CallTables \X {"", ADDED_ASSOCIATIONS_SECTION, DEFAULT_APPLICATIONS_SECTION}
             \X {<<>>, TextPlain, TreeForm}
             \X {"", "viewer.desktop", "editor.desktop"}

CallAddAssociation(assocs, section, key, value) ==
  Returns("add_association", <<assocs, section, key, value>>,
          add_association(assocs, section, key, value))

\* add_association and then remove_association with the same arguments
CallRemoveAfterAdd(assocs, section, key, value) ==
  Returns("remove_after_add", <<assocs, section, key, value>>,
          remove_association(add_association(assocs, section, key, value),
                             section, key, value))

\* lines of a mimeapps.list file
FileLines ==
  { <<"[", "Added Associations", "]">>,
    <<"[", "Default Applications", "]">>,
    <<"#", " ", "note">>,
    <<"note">>,
    <<"text/plain", "=", "viewer.desktop", ";">>,
    <<"text/plain", "=", "editor.desktop", ";", "viewer.desktop", ";">>,
    <<" ", "text/x-tree", " ", "=", " ", "viewer.desktop", " ", ";", " ">>,
    <<"text/x-tree", "=", "apps", "/", "editor.desktop">>,
    <<"text/x-tree", "=", ";">>,
    <<"text/x-tree", "=", "apps", "/">>,
    <<"text/plain", "=", " ", ";", "editor.desktop", ";">> }

\* a file is loaded, and the table saved and loaded again
CallSaveThenLoad(lines) ==
  Returns("save_then_load", <<lines, parse_associations(lines)>>,
          save_then_load(parse_associations(lines)))

\* a file is loaded and the table saved, after the removal of a key or as
\* it is
CallSaveAssociations(lines, cleared) ==
  LET loaded == parse_associations(lines)
      assocs == IF cleared
                  THEN remove_association(loaded, <<"Added Associations">>,
                                          <<"text/plain">>, "")
                  ELSE loaded
  IN  Returns("save_associations", <<assocs>>, saved_file(assocs))

\* Exec templates: a program and up to MaxWords words
ExecWords ==
  { <<"%", "f">>, <<"%", "u">>, <<"%", "F">>, <<"%", "U">>,
    <<"--x=", "%", "f">>, <<"--x=", "%", "F">>,
    <<"%", "%", "f">>, <<"%", "%", "%", "u">>, <<"%", "c">> }

ExecTemplates ==
  UNION {{<<"app">> \o Concat([i \in 1..n |-> <<" ">> \o ws[i]]) :
            ws \in [1..n -> ExecWords]} : n \in 0..MaxWords}

\* arguments: a path, a remote URL, a file URL of this host
ExecArgs ==
  UNION {[1..n -> {<<"a.txt">>, <<"http", "://", "h", "/b">>,
                   <<"file", "://", "", "/c">>}] : n \in 0..MaxArgs}

CallExecFieldToCmdsWithoutTerm(exe, args) ==
  Returns("exec_field_to_cmds_without_term", <<exe, args>>,
          exec_field_to_cmds_without_term(exe, args, <<"Name">>, <<>>,
                                          <<"/app.desktop">>))

\* the values of --term: none, "urxvt -e", "urxvt -e %s", "xterm -e%s"
TermCmds ==
  { None,
    <<"urxvt", " ", "-e">>,
    <<"urxvt", " ", "-e", " ", "%", "s">>,
    <<"xterm", " ", "-e", "%", "s">> }

CallExecFieldToCmds(exe, args, is_term, term_cmd) ==
  Returns("exec_field_to_cmds", <<exe, args, is_term, term_cmd>>,
          exec_field_to_cmds(exe, args, <<"Name">>, <<>>, <<"/app.desktop">>,
                             is_term, term_cmd))

\* terminal commands with the placeholder as a word, in single quotes, in
\* single quotes that are themselves escaped, and inside a word
TermTemplates ==
  { <<"urxvt", " ", "-e">>,
    <<"urxvt", " ", "-e", " ", "%", "s">>,
    <<"xterm", " ", "-e", " ", "bash", " ", "-c", " ", "'", "%", "s", "'">>,
    <<"xterm", " ", "-e", " ", "\\", "'", "%", "s", "\\", "'">>,
    <<"xterm", " ", "\"", "-T", " ", "%", "s", "\"", " ", "-e", " ", "%", "s">>,
    <<"xterm", " ", "-e", "%", "s">>,
    <<"xterm", " ", "-T", " ", "100", "%", "%", " ", "%", "s">> }

\* application commands: a program and up to MaxArgs arguments
AppCmds ==
  UNION {{<<<<prog>>>> \o as :
            prog \in {"vim", "less"},
            as \in [1..n -> {<<"a.txt">>, <<"a", " ", "b.txt">>, <<>>}]} :
         n \in 0..MaxArgs}

CallInterpolateTermCmd(term_cmd, app_cmd) ==
  Returns("interpolate_term_cmd", <<term_cmd, app_cmd>>,
          interpolate_term_cmd(term_cmd, app_cmd))

\* rules: for what ends in .txt, for what starts with http, for what holds
\* an "a"; the last command has no field code
Rules ==
  { <<<<".txt", "$">>, <<"edit", " ", "%", "f">>>>,
    <<<<"^", "http">>, <<"browser", " ", "%", "U">>>>,
    <<<<"a">>, <<"echo">>>> }

MimeoAssocs == UNION {[1..n -> Rules] : n \in 0..MaxRules}

\* arguments: two paths and a URL
Args ==
  UNION {[1..n -> {<<"a", ".txt">>, <<"b", ".pdf">>,
                   <<"http", "://", "h", "/a">>}] : n \in 0..MaxArgs}

CallArgsToCustomCmds(mimeo_assocs, args, at_least_one, first_only) ==
  Returns("args_to_custom_cmds", <<mimeo_assocs, args, at_least_one, first_only>>,
          args_to_custom_cmds(mimeo_assocs, args, at_least_one, first_only))

CallMaybeCreateMimeinfoCache(exists, has_desktop_files, force, tool) ==
  Returns("maybe_create_mimeinfo_cache",
          <<exists, has_desktop_files, force, tool>>,
          maybe_create_mimeinfo_cache(exists, has_desktop_files, force, tool))

\* words of commands: plain ones and ones with reserved characters
CmdWords ==
  { <<"vim">>, <<"-p">>, <<"a", " ", "b">>, <<"echo", " ", "$", "HOME">>,
    <<"c:", "\\", "d">> }

Cmds == UNION {[1..n -> CmdWords] : n \in 0..MaxWords}

CallCreateDesktopEntry(name, cmd, mimetypes, is_term) ==
  Returns("create_desktop_entry", <<name, cmd, mimetypes, is_term>>,
          create_desktop_entry(name, cmd, mimetypes, is_term))

\* lines of a list file, one of which names an application twice
RepeatingLines ==
  FileLines \cup {<<"text/plain", "=", "viewer.desktop", ";", "viewer.desktop", ";">>}

\* an addition or a removal; the value "" of a removal is the default None
TableOps ==
  [op : {"add"}, section : {<<"Added Associations">>},
   key : {<<"text/plain">>, <<"text/x-tree">>},
   value : {<<"viewer.desktop">>, <<"editor.desktop">>}]
    \cup [op : {"remove"}, section : {<<"Added Associations">>},
          key : {<<"text/plain">>, <<"text/x-tree">>},
          value : {"", <<"viewer.desktop">>}]

apply_table_op(assocs, o) ==
  IF o.op = "add" THEN add_association(assocs, o.section, o.key, o.value)
                  ELSE remove_association(assocs, o.section, o.key, o.value)

\* a file is loaded, and associations are added to and removed from the table
CallLoadThenModify(lines, ops) ==
  LET t[n \in 0..Len(ops)] ==
        IF n = 0 THEN parse_associations(lines)
                 ELSE apply_table_op(t[n - 1], ops[n])
  IN  Returns("load_then_modify", <<lines, ops>>, t[Len(ops)])

CallMimeappsListPaths(current_desktop, user, system, include_user_app_dir) ==
  Returns("mimeapps_list_paths",
          <<current_desktop, user, system, include_user_app_dir>>,
          mimeapps_list_paths(current_desktop, user, system,
                              include_user_app_dir))

\* one call of a function that reads or writes the text of a file or builds
\* commands, in a process whose XDG_CURRENT_DESKTOP is "x"
InitText == InitCalls /\ current_desktops = <<"x">>

NextText ==
  \/ /\ call.fn = "none"
     /\ \E n \in 0..MaxLines : \E lines \in [1..n -> FileLines] :
          CallSaveThenLoad(lines)
  \/ /\ call.fn = "none"
     /\ \E n \in 0..MaxLines :
          \E lines \in [1..n -> FileLines], cleared \in BOOLEAN :
            CallSaveAssociations(lines, cleared)
  \/ /\ call.fn = "none"
     /\ \E exe \in ExecTemplates, args \in ExecArgs :
          CallExecFieldToCmdsWithoutTerm(exe, args)
  \/ /\ call.fn = "none"
     /\ \E exe \in ExecTemplates, args \in ExecArgs, is_term \in BOOLEAN,
           term_cmd \in TermCmds :
          CallExecFieldToCmds(exe, args, is_term, term_cmd)

SpecText == InitText /\ [][NextText]_vars

\* one call of a function that builds a command, matches custom rules,
\* updates a cache file or writes a desktop file
NextCmds ==
  \/ /\ call.fn = "none"
     /\ \E term_cmd \in TermTemplates, app_cmd \in AppCmds :
          CallInterpolateTermCmd(term_cmd, app_cmd)
  \/ /\ call.fn = "none"
     /\ \E mimeo_assocs \in MimeoAssocs, args \in Args,
           at_least_one \in BOOLEAN, first_only \in BOOLEAN :
          CallArgsToCustomCmds(mimeo_assocs, args, at_least_one, first_only)
  \/ /\ call.fn = "none"
     /\ \E exists \in BOOLEAN, has_desktop_files \in BOOLEAN,
           force \in BOOLEAN, tool \in ToolRuns :
          CallMaybeCreateMimeinfoCache(exists, has_desktop_files, force, tool)
  \/ /\ call.fn = "none"
     /\ \E name \in {<<>>, <<"Viewer">>}, cmd \in Cmds,
           mimetypes \in {<<>>, <<<<"text/plain">>>>,
                          <<<<"text/plain">>, <<"text/x-tree">>>>},
           is_term \in BOOLEAN :
          CallCreateDesktopEntry(name, cmd, mimetypes, is_term)
  \/ /\ call.fn = "none"
     /\ \E n \in 0..MaxLines, k \in 0..MaxTableOps :
          \E lines \in [1..n -> RepeatingLines], ops \in [1..k -> TableOps] :
            CallLoadThenModify(lines, ops)

SpecCmds == InitText /\ [][NextCmds]_vars

NextCalls ==
  \/ /\ call.fn = "none"
     /\ \E a \in TableArgs : CallAddAssociation(a[1], a[2], a[3], a[4])
  \/ /\ call.fn = "none"
     /\ \E a \in TableArgs : CallRemoveAfterAdd(a[1], a[2], a[3], a[4])
  \/ /\ call.fn = "none"
     /\ \E current_desktop \in BOOLEAN, user \in BOOLEAN, system \in BOOLEAN,
           include_user_app_dir \in BOOLEAN :
          CallMimeappsListPaths(current_desktop, user, system,
                                include_user_app_dir)

SpecCalls == InitCalls /\ [][NextCalls]_vars

-----------------------------------------------------------------------------
(* Properties of the resolver *)

\* a resolution has been made; out and query describe it
Resolved == query.op = "resolve"

\* the position of a path in the output, 0 when it is not there
Pos(p) == IndexOf(out, p)

\* C1: mimetype_to_desktop_filepaths never yields the same path twice, not
\* when a desktop-specific and a generic mimeapps.list share a directory and
\* not when an identifier is both a default and an added association.
C1_NoPathTwice ==
  Resolved => \A i, j \in 1..Len(out) : out[i] = out[j] => i = j

\* the undecorated generator produced a path twice, once as a default and
\* once as an association, and the resolution was consumed to its end
C1_Witness ==
  /\ Resolved
  /\ ~query.first_only
  /\ \E g \in {Generated(query.mimetype, FALSE, query.only_existing)} :
       \E i, j \in 1..Len(g) :
          /\ i < j
          /\ g[i].path = g[j].path
          /\ g[i].origin = "default"
          /\ g[j].origin = "associated"
          /\ Count(out, g[i].path) = 1

\* the candidate paths of the defaults of the forms of the query, whether
\* the files exist or not
DefaultCandidates ==
  UNION {Range(DefaultYields(query.forms[k], FALSE)) :
           k \in 1..Len(query.forms)}

\* C2 as stated: every path yielded other than None names a desktop file
\* that exists, for every setting of the options.
C2_EveryPathExists ==
  Resolved => \A p \in Range(out) \ {None} : path_exists(p)

\* C2: with only_existing every path yielded other than None names a desktop
\* file that exists; without it every path yielded from Added Associations or
\* the MIME Cache exists, and a path that does not exist is a candidate of a
\* Default Applications entry.
C2_PathExistsUnlessUncheckedDefault ==
  Resolved =>
    \A p \in Range(out) \ {None} :
       \/ path_exists(p)
       \/ ~query.only_existing /\ p \in DefaultCandidates

\* with only_existing a default was yielded from the directory that holds its
\* file, while its candidate in another directory was held back
C2_Witness ==
  /\ Resolved
  /\ query.only_existing
  /\ \E p \in Range(out) \ {None}, q \in DefaultCandidates :
       /\ p \in DefaultCandidates
       /\ basename(q) = basename(p)
       /\ ~path_exists(q)
       /\ q \notin Range(out)

\* the list-file sources in order of precedence
Sources == Mimeo_mimeapps_list_paths

\* the identifiers that a list file gives for a key of a section
Listed(path, section, m) ==
  Range(iterate_associations(get_associations(path), section, m))

\* per source, the identifiers that a section of it gives for a key
ListedAt(section, m) ==
  LET paths == Sources
  IN  [i \in 1..Len(paths) |-> Listed(paths[i], section, m)]

\* the MIME Cache entries of a directory
Cached(dir, m) ==
  iterate_associations(get_associations(join(dir, MIMEINFO_CACHE_FILE)),
                       MIME_CACHE_SECTION, m)

\* per source, the MIME Cache entries of its directory
CachedAt(m) ==
  LET paths == Sources
  IN  [i \in 1..Len(paths) |-> Cached(dirname(paths[i]), m)]

\* C3 as stated: an identifier in Added Associations of a source and in
\* Removed Associations of a later source has no path among those that
\* associated_desktop_paths yields, whichever directories hold its file.
C3_LaterRemovalHidesEveryPath ==
  Resolved =>
    \A m \in Range(query.forms) :
      LET added == ListedAt(ADDED_ASSOCIATIONS_SECTION, m)
          removed == ListedAt(REMOVED_ASSOCIATIONS_SECTION, m)
          yielded == associated_desktop_paths(m)
      IN  \A j \in DOMAIN removed : \A d \in removed[j] :
            \A i \in 1..(j - 1) :
               d \in added[i]
               => \A r \in Range(yielded) : basename(r.path) # d

\* C3: an identifier in Added Associations of a source and in Removed
\* Associations of a later source has no path among those that
\* associated_desktop_paths yields from the removing source on; the paths
\* yielded from the sources before it stay.
C3_LaterRemovalHidesFromItsSource ==
  Resolved =>
    \A m \in Range(query.forms) :
      LET added == ListedAt(ADDED_ASSOCIATIONS_SECTION, m)
          removed == ListedAt(REMOVED_ASSOCIATIONS_SECTION, m)
          yielded == associated_desktop_paths(m)
      IN  \A j \in DOMAIN removed : \A d \in removed[j] :
            \A i \in 1..(j - 1) :
               d \in added[i]
               => \A r \in Range(yielded) : r.src >= j => basename(r.path) # d

\* an addition that only the later removal hides: the file exists in the
\* directory of the removing source, nothing before it removes the
\* identifier, and the resolution yields no path for it
C3_Witness ==
  /\ Resolved
  /\ LET added == ListedAt(ADDED_ASSOCIATIONS_SECTION, query.mimetype)
         removed == ListedAt(REMOVED_ASSOCIATIONS_SECTION, query.mimetype)
     IN  \E j \in DOMAIN removed : \E d \in removed[j] :
           /\ \E i \in 1..(j - 1) : d \in added[i]
           /\ \A k \in 1..(j - 1) : d \notin removed[k]
           /\ path_exists(join(dirname(Sources[j]), d))
           /\ \A p \in Range(out) \ {None} : basename(p) # d

\* C4 as stated: an identifier in Removed Associations of a source and in
\* Added Associations or the MIME Cache of that or a later source has no path
\* among those that associated_desktop_paths yields.
C4_RemovedHidesEveryPath ==
  Resolved =>
    \A m \in Range(query.forms) :
      LET added == ListedAt(ADDED_ASSOCIATIONS_SECTION, m)
          removed == ListedAt(REMOVED_ASSOCIATIONS_SECTION, m)
          cached == CachedAt(m)
          yielded == associated_desktop_paths(m)
      IN  \A i \in DOMAIN removed : \A d \in removed[i] :
            \A j \in i..Len(removed) :
               (d \in added[j] \/ d \in Range(cached[j]))
               => \A r \in Range(yielded) : basename(r.path) # d

\* C4: an identifier in Removed Associations of a source and in Added
\* Associations or the MIME Cache of that or a later source has no path among
\* those that associated_desktop_paths yields from the removing source on:
\* the blacklist only grows.
C4_RemovedHidesFromItsSource ==
  Resolved =>
    \A m \in Range(query.forms) :
      LET added == ListedAt(ADDED_ASSOCIATIONS_SECTION, m)
          removed == ListedAt(REMOVED_ASSOCIATIONS_SECTION, m)
          cached == CachedAt(m)
          yielded == associated_desktop_paths(m)
      IN  \A i \in DOMAIN removed : \A d \in removed[i] :
            \A j \in i..Len(removed) :
               (d \in added[j] \/ d \in Range(cached[j]))
               => \A r \in Range(yielded) : r.src >= i => basename(r.path) # d

\* a removal followed by an addition in a later source whose directory
\* holds the file, and the resolution yields no path for the identifier
C4_Witness ==
  /\ Resolved
  /\ LET added == ListedAt(ADDED_ASSOCIATIONS_SECTION, query.mimetype)
         removed == ListedAt(REMOVED_ASSOCIATIONS_SECTION, query.mimetype)
     IN  \E i \in DOMAIN removed : \E d \in removed[i] :
           \E j \in (i + 1)..Len(removed) :
              /\ d \in added[j]
              /\ path_exists(join(dirname(Sources[j]), d))
              /\ \A p \in Range(out) \ {None} : basename(p) # d

\* the identifiers that some source lists under Added Associations, Default
\* Applications or Removed Associations for a key
ListedAnywhere(section, m) ==
  LET listed == ListedAt(section, m)
  IN  UNION {listed[i] : i \in DOMAIN listed}

\* C5 as stated: an identifier in Added Associations of a list file and in
\* the MIME Cache of the same directory, whose file exists there and which
\* no source removes, has its path in that directory yielded exactly once,
\* ahead of the path of every identifier that comes only from the cache.
C5_AddedBeforeCacheOnly ==
  (Resolved /\ ~query.first_only) =>
    LET m == query.mimetype
        paths == Sources
        added == ListedAt(ADDED_ASSOCIATIONS_SECTION, m)
        cached == CachedAt(m)
        listed == ListedAnywhere(ADDED_ASSOCIATIONS_SECTION, m)
                    \cup ListedAnywhere(DEFAULT_APPLICATIONS_SECTION, m)
        removed == ListedAnywhere(REMOVED_ASSOCIATIONS_SECTION, m)
    IN  \A i \in DOMAIN added : \A d \in added[i] \cap Range(cached[i]) :
          LET dir == dirname(paths[i])
          IN  (path_exists(join(dir, d)) /\ d \notin removed)
              => /\ Count(out, join(dir, d)) = 1
                 /\ \A x \in Range(cached[i]) \ listed :
                       join(dir, x) \in Range(out)
                       => Pos(join(dir, d)) < Pos(join(dir, x))

\* C5: the same, for a list file that is the first source of its directory;
\* a list file that follows another one of its directory (a generic
\* mimeapps.list after a desktop-specific one) comes after the cache entries
\* that the earlier one has already yielded.
C5_AddedBeforeCacheOnlyInFirstSource ==
  (Resolved /\ ~query.first_only) =>
    LET m == query.mimetype
        paths == Sources
        added == ListedAt(ADDED_ASSOCIATIONS_SECTION, m)
        cached == CachedAt(m)
        listed == ListedAnywhere(ADDED_ASSOCIATIONS_SECTION, m)
                    \cup ListedAnywhere(DEFAULT_APPLICATIONS_SECTION, m)
        removed == ListedAnywhere(REMOVED_ASSOCIATIONS_SECTION, m)
    IN  \A i \in DOMAIN added : \A d \in added[i] \cap Range(cached[i]) :
          LET dir == dirname(paths[i])
          IN  (/\ path_exists(join(dir, d))
               /\ d \notin removed
               /\ \A k \in 1..(i - 1) : dirname(paths[k]) # dir)
              => /\ Count(out, join(dir, d)) = 1
                 /\ \A x \in Range(cached[i]) \ listed :
                       join(dir, x) \in Range(out)
                       => Pos(join(dir, d)) < Pos(join(dir, x))

\* the cache lists a cache-only identifier ahead of one that the first list
\* file of the directory adds, and the added one is yielded first
C5_Witness ==
  /\ Resolved
  /\ ~query.first_only
  /\ LET m == query.mimetype
         paths == Sources
         added == ListedAt(ADDED_ASSOCIATIONS_SECTION, m)
         cached == CachedAt(m)
         listed == ListedAnywhere(ADDED_ASSOCIATIONS_SECTION, m)
                     \cup ListedAnywhere(DEFAULT_APPLICATIONS_SECTION, m)
     IN  \E i \in DOMAIN added : \E d \in added[i] :
           LET dir == dirname(paths[i])
           IN  /\ \A k \in 1..(i - 1) : dirname(paths[k]) # dir
               /\ Len(cached[i]) = 2
               /\ cached[i][2] = d
               /\ cached[i][1] \notin listed
               /\ Pos(join(dir, d)) > 0
               /\ Pos(join(dir, d)) < Pos(join(dir, cached[i][1]))

\* the last modification was "prefer <literal MIME-type> viewer.desktop"
PreferredViewer ==
  /\ mod.op = "prefer"
  /\ mod.matcher = TextPlain
  /\ mod.desktops = <<"viewer.desktop">>

\* the first item of the output is a path of viewer.desktop
ViewerFirst ==
  /\ out # <<>>
  /\ out[1] # None
  /\ basename(out[1]) = "viewer.desktop"

\* C7 as stated: after "prefer <MIME-type> viewer.desktop" in the same
\* process, with viewer.desktop in an application directory, the first path
\* resolved for the MIME-type is viewer.desktop's, whatever the other
\* list-file sources hold.
C7_PreferredIsFirst ==
  (/\ Resolved
   /\ PreferredViewer
   /\ query.mimetype = TextPlain
   /\ \E f \in files : basename(f) = "viewer.desktop")
  => ViewerFirst

\* C7: the same, when no list file of higher precedence than the one that
\* prefer writes gives the MIME-type a default (prefer writes the user's
\* generic mimeapps.list unless the process is told to use the
\* desktop-specific one, which is read first), and when a candidate path of
\* viewer.desktop in the searched directories passes the existence check of
\* the resolution.
C7_PreferredIsFirstOfFirstSource ==
  (/\ Resolved
   /\ PreferredViewer
   /\ query.mimetype = TextPlain
   /\ \A k \in 1..Len(Sources) :
        (\E n \in (k + 1)..Len(Sources) : Sources[n] = ModifiedPath)
        => Listed(Sources[k], DEFAULT_APPLICATIONS_SECTION, TextPlain) = {}
   /\ \E dir \in Range(Mimeo_mimeapps_directories) :
        Passes(join(dir, "viewer.desktop"), query.only_existing))
  => ViewerFirst

\* prefer has put viewer.desktop in front of a default that the user's list
\* already had, a system list names another default, only existing files are
\* asked for, and the first path is viewer.desktop's
C7_Witness ==
  /\ Resolved
  /\ PreferredViewer
  /\ query.mimetype = TextPlain
  /\ query.only_existing
  /\ \/ iterate_associations(get_associations(ModifiedPath),
                             DEFAULT_APPLICATIONS_SECTION, TextPlain)
          = <<"viewer.desktop", "editor.desktop">>
     \/ "editor.desktop" \in Listed(SystemListFile,
                                    DEFAULT_APPLICATIONS_SECTION, TextPlain)
  /\ ViewerFirst
  /\ path_exists(out[1])

\* C8: "prefer" or "add" with a matcher and the desktops d1 d2 leaves d1
\* ahead of d2 in the list of every matched MIME-type, the first desktop
\* given taking precedence.
C8_FirstGivenTakesPrecedence ==
  (/\ mod.op \in {"prefer", "add"}
   /\ mod.matcher # None
   /\ Len(mod.desktops) = 2)
  => \A m \in matching_mimetypes(mod.matcher, FALSE) :
        \A sec \in Range(ASSOCIATION_ADDERS[mod.op]) :
           LET l == iterate_associations(get_associations(ModifiedPath), sec, m)
           IN  /\ IndexOf(l, mod.desktops[1]) > 0
               /\ IndexOf(l, mod.desktops[1]) < IndexOf(l, mod.desktops[2])

\* C9: "remove" adds to Removed Associations only: the Default Applications
\* identifiers of a MIME-type and the default paths yielded for it are the
\* same after it as before, the removed identifiers included.
C9_RemoveKeepsDefaults ==
  mod.op = "remove" =>
    /\ DefaultsNow = mod.defaults
    /\ (Resolved /\ ~query.first_only) =>
         \A k \in 1..Len(query.forms) :
            Range(mod.defaults.paths[<<query.forms[k], query.only_existing>>])
              \subseteq Range(out)

\* viewer.desktop is a default of the MIME-type, "remove" has put it in the
\* Removed Associations of the user's list, and its path is still the first
\* one resolved
C9_Witness ==
  /\ Resolved
  /\ mod.op = "remove"
  /\ mod.matcher = TextPlain
  /\ query.mimetype = TextPlain
  /\ "viewer.desktop" \in Range(mod.desktops)
  /\ "viewer.desktop" \in Listed(ModifiedPath, REMOVED_ASSOCIATIONS_SECTION,
                                 TextPlain)
  /\ default_desktop_filenames(TextPlain) # <<>>
  /\ default_desktop_filenames(TextPlain)[1] = "viewer.desktop"
  /\ ViewerFirst

\* the paths that the defaults of a MIME-type produce under the query's
\* only_existing
DefaultPaths(m) == Range(DefaultYields(m, query.only_existing))

\* the paths that the Added Associations and the MIME Cache of a MIME-type
\* produce
AssociatedPaths(m) == {r.path : r \in Range(associated_desktop_paths(m))}

\* C6 as stated: for each form tried, every path produced from a Default
\* Applications entry is yielded before every path produced from Added
\* Associations or the MIME Cache for that form.
C6_DefaultsBeforeAssociated ==
  Resolved =>
    \A k \in 1..Len(query.forms) :
      LET defaults == DefaultPaths(query.forms[k])
          associated == AssociatedPaths(query.forms[k]) \ defaults
      IN  \A P \in defaults \cap Range(out), Q \in associated \cap Range(out) :
            Pos(P) < Pos(Q)

\* C6: for the full form every default path is yielded before every Added
\* Associations or MIME Cache path; for the stripped form every default path
\* is yielded before every such path that the full form has not already
\* produced, a path already yielded keeping its earlier place.
C6_DefaultsBeforeNewAssociated ==
  Resolved =>
    \A k \in 1..Len(query.forms) :
      LET defaults == DefaultPaths(query.forms[k])
          earlier == IF k = 1 THEN {}
                     ELSE DefaultPaths(query.forms[1])
                            \cup AssociatedPaths(query.forms[1])
          associated == (AssociatedPaths(query.forms[k]) \ defaults) \ earlier
      IN  \A P \in defaults \cap Range(out), Q \in associated \cap Range(out) :
            Pos(P) < Pos(Q)

\* both forms were tried, the stripped form has a default path and an
\* association path that the full form did not produce, and the output has
\* both
C6_Witness ==
  /\ Resolved
  /\ Len(query.forms) = 2
  /\ LET defaults == DefaultPaths(query.forms[2])
         earlier == DefaultPaths(query.forms[1])
                      \cup AssociatedPaths(query.forms[1])
         associated == (AssociatedPaths(query.forms[2]) \ defaults) \ earlier
     IN  /\ earlier # {}
         /\ \E P \in defaults \ earlier, Q \in associated :
               /\ Pos(P) > 0
               /\ Pos(P) < Pos(Q)

\* the paths that one form of a MIME-type produces
FormPaths(m) == DefaultPaths(m) \cup AssociatedPaths(m)

\* C10: a MIME-type whose stripped form differs is resolved for the full form
\* and then for the stripped form, and every path obtained for the full form
\* is yielded before every path obtained only for the stripped form; a
\* MIME-type that is its own stripped form is resolved once.
C10_FullFormFirst ==
  Resolved =>
    LET m == query.mimetype
        stripped == strip_mimetype(m)
    IN  IF stripped = m
          THEN query.forms = <<m>>
          ELSE /\ query.forms = <<m, stripped>>
               /\ \A P \in FormPaths(m) \cap Range(out),
                     Q \in (FormPaths(stripped) \ FormPaths(m)) \cap Range(out) :
                     Pos(P) < Pos(Q)

\* an association path of the full form is yielded ahead of a default path
\* that only the stripped form gives
C10_Witness ==
  /\ Resolved
  /\ strip_mimetype(query.mimetype) # query.mimetype
  /\ \E P \in AssociatedPaths(query.mimetype) \ DefaultPaths(query.mimetype),
        Q \in DefaultPaths(strip_mimetype(query.mimetype))
                \ FormPaths(query.mimetype) :
        /\ Pos(P) > 0
        /\ Pos(P) < Pos(Q)

\* the resolution was made with the default options of the function and of
\* the process
DefaultResolution ==
  /\ Resolved
  /\ ~query.at_least_one
  /\ ~query.first_only
  /\ ~query.only_existing
  /\ opts = DefaultOpts

\* no list file gives the MIME-type an entry in any of its sections
NoListAssociation(m) ==
  \A sec \in ListSections : ListedAnywhere(sec, m) = {}

\* C11: with no list-file association for the MIME-type, an identifier in
\* the MIME Cache of an applications directory (the user's or the system's)
\* has its path in that directory yielded when the file exists there, and
\* not yielded when it does not.
C11_CacheEntryResolved ==
  (DefaultResolution /\ NoListAssociation(query.mimetype)) =>
    \A dir \in {UserAppDir, SystemAppDir} :
      \A d \in Range(Cached(dir, query.mimetype)) \cap {"editor.desktop"} :
         path_exists(join(dir, d)) <=> join(dir, d) \in Range(out)

\* the sources of a resolution were listed: mimeapps_list_paths as
\* Mimeo.mimeapps_list_paths calls it
ListedSources ==
  /\ call.fn = "mimeapps_list_paths"
  /\ call.args[1] /\ call.args[2] /\ call.args[3]

\* in the list returned, within every directory the desktop-specific files
\* come in the order of the desktop names and ahead of the generic file
DesktopSpecificFirst ==
  LET paths == call.result
      at(dir, name) == IndexOf(paths, join(dir, name))
      dmals == desktop_mimeapps_filenames
  IN  \A dir \in {dirname(p) : p \in Range(paths)} :
        /\ \A k \in 1..Len(dmals) :
              /\ at(dir, dmals[k]) > 0
              /\ at(dir, dmals[k]) < at(dir, MIMEAPPS_LIST_FILE)
        /\ \A k, l \in 1..Len(dmals) :
              k < l => at(dir, dmals[k]) < at(dir, dmals[l])

\* the directories of the user and of the system
UserTier == {xdg_config_home, UserAppDir}
SystemConfigTier == Range(Except(xdg_config_dirs, xdg_config_home))

\* C12 as stated: in the sources of a resolution the desktop-specific files
\* of a directory precede its generic file in the order of the desktop
\* names, and every file of the user precedes every file of the system.
C12_SourceOrder ==
  ListedSources =>
    /\ DesktopSpecificFirst
    /\ \A i, j \in 1..Len(call.result) :
          (/\ dirname(call.result[i]) \in UserTier
           /\ dirname(call.result[j]) \notin UserTier)
          => i < j

\* C12: the same, except that the list files of the user's applications
\* directory (sources when include_deprecated is set) follow the files of
\* the system's configuration directories; they precede the files of the
\* system's applications directories.
C12_SourceOrderByKind ==
  ListedSources =>
    /\ DesktopSpecificFirst
    /\ \A i, j \in 1..Len(call.result) :
          (/\ dirname(call.result[i]) \in UserTier
           /\ dirname(call.result[j]) \notin UserTier
           /\ ~(/\ dirname(call.result[i]) = UserAppDir
                /\ dirname(call.result[j]) \in SystemConfigTier))
          => i < j

\* two desktop names, the user's applications directory included: twelve
\* sources, the user's desktop-specific file for the first name at the head
C12_Witness ==
  /\ ListedSources
  /\ call.args[4]
  /\ Len(current_desktops) = 2
  /\ Len(call.result) = 12
  /\ call.result[1] = join(xdg_config_home, DesktopListName(current_desktops[1]))

\* C13: after add_association(t, s, k, v) with s, k and v non-empty, v is at
\* the front of t[s][k] and occurs once, the other values keep their order,
\* and the same add once more changes nothing; with s, k or v empty the
\* table is unchanged.
C13_AddToFront ==
  call.fn = "add_association" =>
    LET t == call.args[1]
        sec == call.args[2]
        k == call.args[3]
        v == call.args[4]
        r == call.result
    IN  IF sec = "" \/ k = <<>> \/ v = ""
          THEN r = t
          ELSE /\ HasKey(r, sec, k)
               /\ Head(r[sec][k]) = v
               /\ Count(r[sec][k], v) = 1
               /\ Tail(r[sec][k])
                    = SelectSeq(iterate_associations(t, sec, k), LAMBDA x : x # v)
               /\ add_association(r, sec, k, v) = r

\* the value was in the list twice, behind another one, and is now once at
\* the front
C13_Witness ==
  /\ call.fn = "add_association"
  /\ HasKey(call.args[1], call.args[2], call.args[3])
  /\ Count(call.args[1][call.args[2]][call.args[3]], call.args[4]) = 2
  /\ Head(call.args[1][call.args[2]][call.args[3]]) # call.args[4]
  /\ Len(call.result[call.args[2]][call.args[3]]) = 2
  /\ Head(call.result[call.args[2]][call.args[3]]) = call.args[4]
\* C14 as stated: remove_association(t, s, k, v) after
\* add_association(t, s, k, v) leaves the list t[s][k] as it was before the
\* add, and the key absent if it was absent.
C14_RemoveRestores ==
  call.fn = "remove_after_add" =>
    /\ iterate_associations(call.result, call.args[2], call.args[3])
         = iterate_associations(call.args[1], call.args[2], call.args[3])
    /\ ~HasKey(call.args[1], call.args[2], call.args[3])
         => ~HasKey(call.result, call.args[2], call.args[3])

\* C14, amended: the same for a non-empty value v that was not in t[s][k]
\* before the add.
C14_RemoveRestoresNewValue ==
  (/\ call.fn = "remove_after_add"
   /\ call.args[4] # ""
   /\ call.args[4] \notin
        Range(iterate_associations(call.args[1], call.args[2], call.args[3])))
    => /\ iterate_associations(call.result, call.args[2], call.args[3])
            = iterate_associations(call.args[1], call.args[2], call.args[3])
       /\ ~HasKey(call.args[1], call.args[2], call.args[3])
            => ~HasKey(call.result, call.args[2], call.args[3])

\* a new value was added to an absent key of an existing section and removed
\* again: the key is absent, the other key of the section is as it was
C14_Witness ==
  /\ call.fn = "remove_after_add"
  /\ call.args[4] # ""
  /\ call.args[2] \in DOMAIN call.args[1]
  /\ DOMAIN call.args[1][call.args[2]] = {TextPlain}
  /\ call.args[3] = TreeForm
  /\ HasKey(add_association(call.args[1], call.args[2], call.args[3], call.args[4]),
            call.args[2], call.args[3])
  /\ call.result = call.args[1]

\* C15: save_associations and then load_associations of a table whose empty
\* keys and sections are pruned gives a table with the same sections, the
\* same keys in each section and the same list of values for each key.
C15_SaveThenLoad ==
  call.fn = "save_then_load" =>
    call.result = remove_empty_associations(call.args[2])

\* C16: save_associations of a table that is empty once its empty keys and
\* sections are pruned leaves no file at the path; for any other table every
\* section line of the written file is followed by an entry, and every entry
\* has a value after its "=".
C16_NothingEmptyWritten ==
  call.fn = "save_associations" =>
    IF DOMAIN remove_empty_associations(call.args[1]) = {}
      THEN ~call.result.exists
      ELSE /\ call.result.exists
           /\ \A i \in 1..Len(call.result.lines) :
                LET line == call.result.lines[i]
                    eq == IndexOf(line, "=")
                    values == SelectSeq(split(SubSeq(line, eq + 1, Len(line)), ";"),
                                        LAMBDA d : strip(d) # <<>>)
                IN  /\ line # <<>> /\ line[1] = "["
                         => /\ i < Len(call.result.lines)
                            /\ call.result.lines[i + 1] # <<>>
                            /\ call.result.lines[i + 1][1] # "["
                    /\ line # <<>> /\ line[1] # "["
                         => eq > 1 /\ values # <<>>
\* C17: the tables that modify_associations has read or changed stay the
\* tables of their paths whatever happens to the files afterwards, and a
\* resolution that follows an "add" yields the added desktops that no cached
\* table lists as removed.
C17_CachedTablesKept ==
  mod.op # "none" =>
    /\ \A p \in DOMAIN mod.tables :
         p \in DOMAIN associations /\ associations[p] = mod.tables[p]
    /\ (/\ Resolved
        /\ mod.op = "add"
        /\ mod.matcher = TextPlain
        /\ query.mimetype = TextPlain
        /\ ~query.first_only)
         => \A i \in 1..Len(mod.desktops) :
              (\A p \in DOMAIN associations :
                 mod.desktops[i] \notin
                   Range(iterate_associations(associations[p],
                                              REMOVED_ASSOCIATIONS_SECTION,
                                              TextPlain)))
                => \E j \in 1..Len(out) :
                     out[j] # None /\ Last(out[j]) = mod.desktops[i]

\* viewer.desktop was added for text/plain, the user's list file was then
\* rewritten on disk with viewer.desktop as a removed association, and the
\* resolution of text/plain yields viewer.desktop
C17_Witness ==
  /\ Resolved
  /\ mod.op = "add"
  /\ mod.matcher = TextPlain
  /\ mod.desktops = <<"viewer.desktop">>
  /\ query.mimetype = TextPlain
  /\ ModifiedPath \in DOMAIN disk
  /\ iterate_associations(disk[ModifiedPath], REMOVED_ASSOCIATIONS_SECTION, TextPlain)
       = <<"viewer.desktop">>
  /\ associations[ModifiedPath] # disk[ModifiedPath]
  /\ \E j \in 1..Len(out) : out[j] # None /\ Last(out[j]) = "viewer.desktop"
-----------------------------------------------------------------------------
(* Properties of the command builder *)

\* a template read from left to right: "%" and the character after it are
\* one unit, every other piece is a unit of its own
RECURSIVE Units(_)
Units(exe) ==
  IF exe = <<>> THEN <<>>
  ELSE IF exe[1] = "%" /\ Len(exe) > 1 /\ exe[2] # " "
    THEN <<SubSeq(exe, 1, 2)>> \o Units(SubSeq(exe, 3, Len(exe)))
    ELSE <<<<exe[1]>>>> \o Units(Tail(exe))

FileCodeUnits == {<<"%", c>> : c \in {"f", "u", "F", "U"}}

\* the template without its file field codes
WithoutFileCodes(exe) ==
  Concat(SelectSeq(Units(exe), LAMBDA unit : unit \notin FileCodeUnits))

\* s has the members of sub, next to each other and in their order
Infix(sub, s) ==
  \E k \in 0..(Len(s) - Len(sub)) : SubSeq(s, k + 1, k + Len(sub)) = sub

ExecCalled == call.fn = "exec_field_to_cmds_without_term"

\* the command built for the template and the arguments
CmdOf(exe, args) ==
  exec_field_to_cmds_without_term(exe, args, <<"Name">>, <<>>,
                                  <<"/app.desktop">>).cmds[1]

\* with n >= 1 arguments a template with %f or %u gives n commands, the i-th
\* built from the i-th argument alone
OnePerArgument ==
  LET exe == call.args[1]
      args == call.args[2]
      cmds == call.result.cmds
  IN  (args # <<>> /\ FileCodeUnits \cap Range(Units(exe)) \cap
                        {<<"%", "f">>, <<"%", "u">>} # {})
        => /\ Len(cmds) = Len(args)
           /\ \A i \in 1..Len(args) :
                /\ cmds[i] = CmdOf(exe, <<args[i]>>)
                /\ <<"%", "f">> \in Range(shlex_split(exe))
                     => ensure_path(args[i]) \in Range(cmds[i])
                /\ <<"%", "u">> \in Range(shlex_split(exe))
                     => ensure_url(args[i]) \in Range(cmds[i])

\* without arguments there is one command, that of the template without its
\* file field codes
OneWithoutArguments ==
  call.args[2] = <<>>
    => /\ Len(call.result.cmds) = 1
       /\ call.result.cmds[1] = CmdOf(WithoutFileCodes(call.args[1]), <<>>)

\* C18 as stated: n commands for %f or %u, each from its argument; one
\* command with all the arguments in their order for a template that
\* contains %F or %U; one command without the code when there is no argument.
C18_CommandsPerArgument ==
  (ExecCalled /\ ~call.result.raised) =>
    LET exe == call.args[1]
        args == call.args[2]
        cmds == call.result.cmds
    IN  /\ OnePerArgument
        /\ OneWithoutArguments
        /\ (args # <<>> /\ <<"%", "U">> \in Range(Units(exe)))
             => /\ Len(cmds) = 1
                /\ Infix([i \in 1..Len(args) |-> ensure_url(args[i])], cmds[1])
        /\ (args # <<>> /\ <<"%", "F">> \in Range(Units(exe)))
             => /\ Len(cmds) = 1
                /\ Infix([i \in 1..Len(args) |->
                            IF ensure_path(args[i]) # None
                              THEN ensure_path(args[i]) ELSE args[i]],
                         cmds[1])

\* C18, amended: a template that contains %F or %U gives one command; it
\* holds the URLs of all the arguments in their order when %U is a word of
\* its own, and the paths of the arguments that have one when %F is.
C18_CommandsPerArgumentOrWord ==
  (ExecCalled /\ ~call.result.raised) =>
    LET exe == call.args[1]
        args == call.args[2]
        cmds == call.result.cmds
    IN  /\ OnePerArgument
        /\ OneWithoutArguments
        /\ (args # <<>> /\ Range(Units(exe)) \cap {<<"%", "F">>, <<"%", "U">>} # {})
             => Len(cmds) = 1
        /\ (args # <<>> /\ <<"%", "U">> \in Range(shlex_split(exe)))
             => Infix([i \in 1..Len(args) |-> ensure_url(args[i])], cmds[1])
        /\ (args # <<>> /\ <<"%", "F">> \in Range(shlex_split(exe)))
             => Infix(SelectSeq([i \in 1..Len(args) |-> ensure_path(args[i])],
                                LAMBDA p : p # None),
                      cmds[1])

\* "app %F" with a path and a file URL: one command with both paths
C18_Witness ==
  /\ ExecCalled
  /\ call.args[1] = <<"app", " ", "%", "F">>
  /\ call.args[2] = <<<<"a.txt">>, <<"file", "://", "", "/c">>>>
  /\ call.result.cmds = <<<<<<"app">>, <<"a.txt">>, <<"/c">>>>>>

\* C19: the generator raises ValidationError exactly when the template has
\* more than one of the codes %f, %F, %u, %U, a "%%" not being the start of
\* a code, and it has yielded no command when it raises.
C19_ErrorIffSeveralCodes ==
  ExecCalled =>
    /\ call.result.raised
         <=> Cardinality(FileCodeUnits \cap Range(Units(call.args[1]))) > 1
    /\ call.result.raised => call.result.cmds = <<>>

\* "app %%%u %f": the literal percent sign does not hide the %u behind it
C19_Witness ==
  /\ ExecCalled
  /\ call.args[1] = <<"app", " ", "%", "%", "%", "u", " ", "%", "f">>
  /\ call.args[2] # <<>>
  /\ call.result.raised
\* C20: for an entry launched in a terminal, with a terminal command none of
\* whose words holds the placeholder %s, every command is the words of the
\* terminal command followed by the words of the application command.
C20_AppendedWithoutPlaceholder ==
  (/\ call.fn = "exec_field_to_cmds"
   /\ call.args[3]
   /\ call.args[4] # None
   /\ ~Infix(<<"%", "s">>, call.args[4])
   /\ ~call.result.raised)
    => LET app == exec_field_to_cmds_without_term(call.args[1], call.args[2],
                    <<"Name">>, <<>>, <<"/app.desktop">>).cmds
       IN  /\ Len(call.result.cmds) = Len(app)
           /\ \A i \in 1..Len(app) :
                call.result.cmds[i] = shlex_split(call.args[4]) \o app[i]
-----------------------------------------------------------------------------
(* Properties of the terminal command and of custom commands *)

\* the words of a string as they are written: what stands between its spaces
WrittenWords(s) == SelectSeq(split(s, " "), LAMBDA w : w # <<>>)

\* the words of a command joined by spaces, each quoted for the shell
JoinedQuoted(cmd) ==
  Concat([i \in 1..Len(cmd) |->
            (IF i = 1 THEN <<>> ELSE <<" ">>) \o shlex_quote(cmd[i])])

\* C21: when every word written in the terminal command is the bare
\* placeholder %s, the quoted placeholder '%s' or a word without "%", quotes
\* and backslashes, the output is, word by word: the words of the application
\* command for %s, one word holding the joined and quoted application command
\* for '%s', and the word itself otherwise.
C21_QuotedPlaceholderOneWord ==
  LET term_cmd == call.args[1]
      app_cmd == call.args[2]
      words == WrittenWords(term_cmd)
      bare == <<"%", "s">>
      quoted == <<"'", "%", "s", "'">>
      plain(w) == Range(w) \cap {"%", "'", "\"", "\\"} = {}
  IN  (/\ call.fn = "interpolate_term_cmd"
       /\ \A i \in 1..Len(words) : words[i] \in {bare, quoted} \/ plain(words[i])
       /\ \E i \in 1..Len(words) : words[i] \in {bare, quoted})
        => call.result
             = Concat([i \in 1..Len(words) |->
                         IF words[i] = bare THEN app_cmd
                         ELSE IF words[i] = quoted THEN <<JoinedQuoted(app_cmd)>>
                         ELSE <<words[i]>>])
\* the rules that match an argument, in file order
MatchingRules(mimeo_assocs, a) ==
  SelectSeq(mimeo_assocs, LAMBDA rule : regex_search(rule[1], a))

\* C28: with at_least_one, args_to_custom_cmds yields for each argument in
\* turn None when no rule matches it and otherwise the pairs of the argument
\* with the commands of its matching rules in file order, only the first of
\* them with first_only.
C28_NoneIffNoRuleMatches ==
  (call.fn = "args_to_custom_cmds" /\ call.args[3]) =>
    LET mimeo_assocs == call.args[1]
        args == call.args[2]
        first_only == call.args[4]
    IN  call.result
          = Concat([i \in 1..Len(args) |->
                      LET rules == MatchingRules(mimeo_assocs, args[i])
                      IN  IF rules = <<>> THEN <<None>>
                          ELSE [k \in 1..(IF first_only THEN 1 ELSE Len(rules)) |->
                                  <<args[i], rules[k][2]>>]])
-----------------------------------------------------------------------------
(* Properties of the resolution of arguments *)

\* the MIME-types detected for an argument
DetectedMimetypes(a) == Range(arg_to_mimetypes(a, FALSE, FALSE))

\* the MIME-type has a candidate that exists
HasExistingCandidate(mt) == Generated(mt, TRUE, TRUE) # <<>>

\* C30: with first_only, args_to_desktop_paths yields exactly one existing
\* desktop path for every argument one of whose detected MIME-types has an
\* existing candidate, and never more than one path for an argument.
C30_OnePathWhenAnyTypeHasOne ==
  (/\ query.op = "args_to_desktop_paths"
   /\ query.first_only
   /\ query.only_existing
   /\ ~query.raised)
    => \A a \in Range(query.args) :
         LET yielded == {i \in 1..Len(out) : out[i][1] = a /\ out[i][2] # None}
         IN  /\ Cardinality(yielded) <= 1
             /\ (\E mt \in DetectedMimetypes(a) : HasExistingCandidate(mt))
                  => /\ Cardinality(yielded) = 1
                     /\ \A i \in yielded : path_exists(out[i][2])
-----------------------------------------------------------------------------
(* Properties of the commands for arguments *)

PrecursorsYielded == query.op = "args_to_cmd_precursors"

\* the precursors yielded for an argument, in the order of their first
\* appearance (an argument given twice is matched twice)
PrecursorsOf(a) ==
  LET mine == SelectSeq(out, LAMBDA item : item[1] = a)
  IN  unique_items([i \in 1..Len(mine) |-> mine[i][2]])

\* the precursors of the custom commands of the rules that match a
CustomPrecursors(a, first_only) ==
  LET rules == MatchingRules(query.mimeo_assocs, a)
  IN  unique_items(
        [k \in 1..(IF first_only /\ rules # <<>> THEN 1 ELSE Len(rules)) |->
           <<rules[k][2], None>>])

\* the precursors of the desktop files that MIME resolution gives for a
DesktopPrecursors(a, first_only) ==
  LET ds == args_to_desktop_paths(<<a>>, FALSE, first_only, TRUE).yielded
  IN  [i \in 1..Len(ds) |-> <<None, ds[i][2]>>]

IsDesktopPrecursor(pc) == pc # None /\ pc[1] = None

\* an argument that no rule matches goes through MIME resolution
UnmatchedResolved ==
  \A a \in Range(query.args) :
    MatchingRules(query.mimeo_assocs, a) = <<>>
      => SelectSeq(PrecursorsOf(a), IsDesktopPrecursor)
           = DesktopPrecursors(a, query.first_only)

\* C23 as stated: for both values of first_only, an argument that a rule
\* matches gets custom-command precursors only and an argument that no rule
\* matches gets the desktop files of MIME resolution.
C23_CustomOnlyWhenMatched ==
  PrecursorsYielded =>
    /\ \A a \in Range(query.args) :
         MatchingRules(query.mimeo_assocs, a) # <<>>
           => PrecursorsOf(a) = CustomPrecursors(a, query.first_only)
    /\ UnmatchedResolved

\* C23, amended: with first_only an argument that a rule matches gets the
\* custom command of the first such rule and nothing else, and no file is
\* read when every argument is matched; without first_only it gets its
\* custom commands and the desktop files of MIME resolution as well.  An
\* argument that no rule matches gets the desktop files of MIME resolution.
C23_CustomOnlyWhenMatchedFirstOnly ==
  PrecursorsYielded =>
    /\ \A a \in Range(query.args) :
         MatchingRules(query.mimeo_assocs, a) # <<>>
           => PrecursorsOf(a)
                = CustomPrecursors(a, query.first_only)
                    \o (IF query.first_only THEN <<>>
                        ELSE DesktopPrecursors(a, FALSE))
    /\ (/\ query.first_only
        /\ \A a \in Range(query.args) :
             MatchingRules(query.mimeo_assocs, a) # <<>>)
         => query.reads = {} /\ ~query.known
    /\ UnmatchedResolved

\* with first_only, "g" is matched by a rule and t/p by none while
\* viewer.desktop is associated with text/plain, the type of both: "g" gets
\* the custom command and t/p the desktop file
C23_Witness ==
  /\ PrecursorsYielded
  /\ query.first_only
  /\ query.args = <<<<"g">>, TextPlain>>
  /\ DesktopPrecursors(<<"g">>, TRUE) # <<>>
  /\ out = <<<<<<"g">>, <<<<"echo">>, None>>>>,
             <<TextPlain, <<None, join(UserAppDir, "viewer.desktop")>>>>>>
\* C22: for an argument matched by a rule whose command holds none of the
\* field codes %f, %F, %u, %U, args_to_cmds builds a command that is the
\* words of the rule's command followed by the argument.
C22_ArgumentPassedLast ==
  (query.op = "args_to_cmds" /\ ~query.raised) =>
    \A a \in Range(query.args) :
      LET rules == MatchingRules(query.mimeo_assocs, a)
      IN  \A k \in 1..(IF query.first_only /\ rules # <<>> THEN 1 ELSE Len(rules)) :
            file_codes(rules[k][2]) = {}
              => \E i \in 1..Len(out) :
                   /\ Len(out[i]) > Len(shlex_split(rules[k][2]))
                   /\ SubSeq(out[i], 1, Len(shlex_split(rules[k][2])))
                        = shlex_split(rules[k][2])
                   /\ Last(out[i]) \in {a, ensure_path(a), ensure_url(a)}
-----------------------------------------------------------------------------
(* Properties of the cache update *)

\* C24: when the run of update-desktop-database made by
\* maybe_create_mimeinfo_cache exits with a status other than 0 an exception
\* is raised, and True is returned only if the cache file exists afterwards.
C24_ToolFailurePropagated ==
  call.fn = "maybe_create_mimeinfo_cache" =>
    /\ (call.result.ran /\ call.args[4].returncode # 0) => call.result.raised
    /\ (~call.result.raised /\ call.result.returned) => call.result.exists
-----------------------------------------------------------------------------
(* Properties of the known MIME-types *)

\* the MIME-types that the files on disk and mimetypes.knownfiles name
Universe ==
  LET keys(path, sections) ==
        IF path \in DOMAIN disk
          THEN UNION {DOMAIN disk[path][sec] : sec \in sections \cap DOMAIN disk[path]}
          ELSE {}
  IN  UNION {keys(p, {ADDED_ASSOCIATIONS_SECTION, DEFAULT_APPLICATIONS_SECTION}) :
               p \in Range(mimeapps_list_paths(TRUE, TRUE, TRUE,
                                               opts.include_deprecated))}
      \cup UNION {keys(p, {MIME_CACHE_SECTION}) :
                    p \in Range(mimeinfo_caches(TRUE, TRUE))}
      \cup KnownfilesMimes

\* what a matcher accepts: a literal the identical string, a glob what the
\* whole of it matches, a regular expression what it matches from the start
Accepts(matcher, mt) ==
  IF StartsWith(matcher, MATCHER_PREFIX_GLOB)
    THEN GlobMatch(SubSeq(matcher, Len(MATCHER_PREFIX_GLOB) + 1, Len(matcher)), mt)
  ELSE IF StartsWith(matcher, MATCHER_PREFIX_REGEX)
    THEN regex_match(SubSeq(matcher, Len(MATCHER_PREFIX_REGEX) + 1, Len(matcher)),
                     mt, TRUE)
  ELSE mt = matcher

\* C25: a literal matcher without ensure_known yields the matcher alone and
\* nothing is read; a pattern, or any matcher with ensure_known, yields the
\* members of the known universe that the matcher accepts, a literal
\* accepting the identical string only.
C25_LiteralOrKnownMatches_Step ==
  [][(nres' = nres + 1 /\ query'.op = "matching_mimetypes") =>
       IF ~IsPattern(query'.matcher) /\ ~query'.ensure_known
         THEN /\ out' = {query'.matcher}
              /\ seen_mimetypes' = seen_mimetypes
              /\ associations' = associations
         ELSE out' = {mt \in Universe : Accepts(query'.matcher, mt)}]_vars

\* the literal t/v.p with ensure_known, t/vxp being known from a file: t/v.p
\* alone is yielded
C25_Witness ==
  /\ query.op = "matching_mimetypes"
  /\ query.matcher = TreeForm
  /\ query.ensure_known
  /\ DotAlias \in Universe
  /\ out = {TreeForm}
-----------------------------------------------------------------------------
(* Properties of the desktop files that are written *)

\* a word in double quotes, a backslash before each double quote, grave
\* accent, dollar sign and backslash of it
QuotedWord(word) ==
  <<"\"">>
    \o Concat([i \in 1..Len(word) |->
                 IF word[i] \in {"\"", Backquote, "$", "\\"} THEN <<"\\", word[i]>>
                                                     ELSE <<word[i]>>])
    \o <<"\"">>

\* C26: for a non-empty name, command and MIME-type list the file is
\* written, and its Exec line holds the words of the command separated by
\* spaces, a word with a reserved character quoted and every other word as
\* it is.
C26_ExecLineQuoted ==
  (/\ call.fn = "create_desktop_entry"
   /\ call.args[1] # <<>>
   /\ call.args[2] # <<>>
   /\ call.args[3] # <<>>)
    => LET cmd == call.args[2]
           reserved(word) ==
             Range(word) \cap {" ", "\t", "\n", "\"", "'", "\\", ">", "<", "~",
                               "|", "&", ";", "$", "*", "?", "#", "(", ")", Backquote}
               # {}
       IN  /\ call.result.raised = "none"
           /\ \E i \in 1..Len(call.result.lines) :
                call.result.lines[i]
                  = <<"Exec", "=">>
                      \o Concat([k \in 1..Len(cmd) |->
                                   (IF k = 1 THEN <<>> ELSE <<" ">>)
                                     \o (IF reserved(cmd[k]) THEN QuotedWord(cmd[k])
                                                             ELSE cmd[k])])
\* C27: after a file is loaded and associations are added and removed, no
\* key of a section has an empty list, and no list names an application
\* twice.
C27_ListsNonEmptyAndUnique ==
  call.fn = "load_then_modify"
    => \A section \in DOMAIN call.result :
         \A key \in DOMAIN call.result[section] :
           LET values == call.result[section][key]
           IN  /\ values # <<>>
               /\ \A i, j \in 1..Len(values) : values[i] = values[j] => i = j
\* the MIME-types that are keys of the Added Associations or Default
\* Applications section of a cached list-file table
CachedListKeys ==
  UNION {UNION {DOMAIN associations[path][section] :
                  section \in {ADDED_ASSOCIATIONS_SECTION,
                               DEFAULT_APPLICATIONS_SECTION}
                                \cap DOMAIN associations[path]} :
           path \in DOMAIN associations \cap Range(Mimeo_mimeapps_list_paths)}

\* C29: known_mimetypes holds every key of the Added Associations and
\* Default Applications sections of the cached list-file tables, so a glob
\* or regular expression yields every such key that it matches, also a key
\* that a modification added after the known MIME-types were computed.
C29_KnownHoldsCachedKeys ==
  /\ CachedListKeys \subseteq known_mimetypes
  /\ (query.op = "matching_mimetypes" /\ IsPattern(query.matcher))
       => \A mimetype \in CachedListKeys :
            mimetype_regex(query.matcher, mimetype) => mimetype \in out
=============================================================================
